---------------------------- MODULE Spec2Model ----------------------------
(***************************************************************************)
(* Model of the eth_phy crate of zynqmp_hal: the generic IEEE 802.3 PHY    *)
(* engine (genphy.rs), the DP83867 vendor configuration (dp83867.rs) and   *)
(* the orchestration entry point (lib.rs), run against a simulated MDIO    *)
(* bus that stores what is written and records every access.               *)
(***************************************************************************)
EXTENDS Integers, Sequences, FiniteSets, Bags, TLC

VARIABLES
    bus,      \* the MDIO bus simulator: direct registers, extended registers, MMD address latch
    trace,    \* every bus access issued so far, in order
    gp,       \* the GenPhy handle: [addr, supported]
    conf,     \* the DP83867Conf record of the vendor engine
    pc,       \* where the caller is
    calls,    \* the finished calls: [op, first, last, ret], first..last indexing trace
    polls     \* iterations of the wait loop of update_link() in the running call

vars == <<bus, trace, gp, conf, pc, calls, polls>>

---------------------------------------------------------------------------
(* 16-bit register arithmetic                                              *)

Pow2(n) == 2 ^ n

U16 == 65536

\* bit k of a register value
Bit(v, k) == (v \div Pow2(k)) % 2 = 1

\* a & b on 16-bit values: the sum of the weights of the bits set in both
BitAnd(a, b) ==
    LET x == a
        y == b
        both == {k \in 0..15 : Bit(x, k) /\ Bit(y, k)}
    IN  IF both = {} THEN 0 ELSE BagCardinality([k \in both |-> Pow2(k)])

BitOr(a, b) ==
    LET x == a
        y == b
    IN  x + y - BitAnd(x, y)

\* a & !m on a 16-bit value
BitClear(a, m) ==
    LET x == a
    IN  x - BitAnd(x, m)

\* u16 << n: bits shifted past bit 15 are discarded
Shl16(a, n) == (a * Pow2(n)) % U16

---------------------------------------------------------------------------
(* tock_registers: Field, FieldValue and the InMemoryRegister operations   *)

\* Field::val(v): mask and value already shifted into place
FieldVal(offset, numbits, v) ==
    [mask  |-> (Pow2(numbits) - 1) * Pow2(offset),
     value |-> (v % Pow2(numbits)) * Pow2(offset)]

FieldSet(offset, numbits) == FieldVal(offset, numbits, Pow2(numbits) - 1)

FieldClear(offset, numbits) == FieldVal(offset, numbits, 0)

\* FieldValue + FieldValue
FvAdd(f, g) ==
    LET x == f
        y == g
    IN  [mask |-> BitOr(x.mask, y.mask), value |-> BitOr(x.value, y.value)]

\* fv1 += fv2; fv1 += fv3; ...: the masks OR'ed and the values OR'ed
FvSum(fvs) ==
    LET s == fvs
        masks == {k \in 0..15 : \E i \in DOMAIN s : Bit(s[i].mask, k)}
        values == {k \in 0..15 : \E i \in DOMAIN s : Bit(s[i].value, k)}
    IN  [mask  |-> IF masks = {} THEN 0 ELSE BagCardinality([k \in masks |-> Pow2(k)]),
         value |-> IF values = {} THEN 0 ELSE BagCardinality([k \in values |-> Pow2(k)])]

\* reg.modify(fv)
RegModify(v, fv) ==
    LET x == fv
    IN  BitOr(BitClear(v, x.mask), x.value)

\* reg.write(fv)
RegWrite(fv) == fv.value

\* reg.is_set(field), the field given as its SET value
RegIsSet(v, fv) == BitAnd(v, fv.mask) # 0

\* reg.matches_all(fv)
RegMatchesAll(v, fv) ==
    LET x == fv
    IN  BitAnd(v, x.mask) = x.value

\* reg.matches_any(&[fv, ...])
RegMatchesAny(v, fvs) ==
    LET x == v
    IN  \E fv \in fvs : RegMatchesAll(x, fv)

\* reg.any_matching_bits_set(fv)
RegAnyMatchingBitsSet(v, fv) ==
    LET x == fv
    IN  BitAnd(BitAnd(v, x.mask), x.value) # 0

\* a bit field of register_bitfields!: OFFSET(o) NUMBITS(n)
Field(o, n) == [offset |-> o, numbits |-> n]

SET(f) == FieldSet(f.offset, f.numbits)

CLEAR(f) == FieldClear(f.offset, f.numbits)

VAL(f, v) == FieldVal(f.offset, f.numbits, v)

\* the field's value in register value v (reg.read(field))
FieldGet(v, f) == (v \div Pow2(f.offset)) % Pow2(f.numbits)

\* genphy.rs register_bitfields!
Advertise_HALF10 == Field(5, 1)
Advertise_FULL10 == Field(6, 1)
Advertise_HALF100 == Field(7, 1)
Advertise_FULL100 == Field(8, 1)
Advertise_PAUSE_CAP == Field(10, 1)
Advertise_PAUSE_ASYM == Field(11, 1)
Base1000TCtrl_HALF == Field(8, 1)
Base1000TCtrl_FULL == Field(9, 1)
Bmcr_SPEED1000 == Field(6, 1)
Bmcr_FULLDPLX == Field(8, 1)
Bmcr_ANRESTART == Field(9, 1)
Bmcr_ISOLATE == Field(10, 1)
Bmcr_ANENABLE == Field(12, 1)
Bmsr_ERCAP == Field(0, 1)
Bmsr_LSTATUS == Field(2, 1)
Bmsr_ANEGCOMPLETE == Field(5, 1)
Bmsr_ESTATEN == Field(8, 1)
Estatus_THALF1000 == Field(12, 1)
Estatus_TFULL1000 == Field(13, 1)
Estatus_XHALF1000 == Field(14, 1)
Estatus_XFULL1000 == Field(15, 1)
Stat1000_BTSR_1000FD == Field(11, 1)
Stat1000_BTSR_1000HD == Field(10, 1)

\* dp83867.rs register_bitfields!
Cfg2_SPEED_OPT10M == Field(6, 1)
Cfg2_SGMII_AUTONEGEN == Field(7, 1)
Cfg2_SPEED_OPT_ENHANCED == Field(8, 1)
Cfg2_SPEED_OPT_ATTEMPT_CNT == Field(10, 2)
Cfg2_INTERRUPT_POLARITY == Field(13, 1)
Ctrl_SW_RESTART == Field(14, 1)
PhyCr_MDI_CROSSOVER == Field(5, 2)
PhyCr_FORCE_LINK_GOOD == Field(10, 1)
PhyCr_SGMIIEN == Field(11, 1)
PhyCr_RX_FIFO_DEPTH == Field(12, 2)
PhyCr_TX_FIFO_DEPTH == Field(14, 2)
Cfg4_INT_TST_MODE_1 == Field(7, 1)
Cfg4_PORT_MIRROR_EN == Field(0, 1)
IoMuxCfg_CLK_O_SEL == Field(8, 5)
IoMuxCfg_CLK_O_DISABLE == Field(6, 1)
IoMuxCfg_IO_IMPEDENCE_CTRL == Field(0, 5)
RgmiiCtl_TX_CLK_DELAY == Field(1, 1)
RgmiiCtl_RX_CLK_DELAY == Field(0, 1)
RgmiiDCtl_TX_DELAY_CTRL == Field(4, 4)
RgmiiDCtl_RX_DELAY_CTRL == Field(0, 4)
SgmiiCtl_REF_CLK_EN == Field(14, 1)
StrapSts1_RESERVED == Field(11, 1)

\* field values named in register_bitfields!
Cfg2_SPEED_OPT_ATTEMPT_CNT_N4 == 2
Cfg2_INTERRUPT_POLARITY_Low == 1
PhyCr_MDI_CROSSOVER_Auto == 2

---------------------------------------------------------------------------
(* Register numbers                                                        *)

PHYREG_MASK == 6152              \* 0x1808
MII_MMD_CTRL_NOINCR == 16384     \* 0x4000
DP83867_DEVADDR == 31            \* 0x1f

PhyReg_DetectReg == 1
Mii_Bmcr == 0
Mii_Bmsr == 1
Mii_Advertise == 4
Mii_Lpa == 5
Mii_Ctrl1000 == 9
Mii_Stat1000 == 10
Mii_MmdCtrl == 13
Mii_MmdData == 14
Mii_EStatus == 15

Dp83867Reg_PhyCtrl == 16
Dp83867Reg_Cfg2 == 20
Dp83867Reg_Biscr == 22
Dp83867Reg_Ctrl == 31
Dp83867Reg_Cfg4 == 49            \* 0x0031
Dp83867Reg_RgmiiCtl == 50        \* 0x0032
Dp83867Reg_StrapSts1 == 110      \* 0x006E
Dp83867Reg_RgmiiDCtl == 134      \* 0x0086
Dp83867Reg_IoMuxCfg == 368       \* 0x0170
Dp83867Reg_SgmiiCtl == 211       \* 0x00D3

\* the MDIO address space scanned by detect(): (0..32).rev()
NumPhyAddrs == 32

---------------------------------------------------------------------------
(* The bus transport (trait PhyReadWrite), simulated: a register bank that *)
(* stores what is written.  A register nobody programmed or wrote reads    *)
(* 0xFFFF, as an undriven MDIO line does.  Register 0x0E proxies the       *)
(* extended register latched through 0x0D/0x0E when 0x0D selects the data  *)
(* function.                                                               *)

NoDevice == 65535

NoExt == -1

RegOf(b, a, r) == IF <<a, r>> \in DOMAIN b.reg THEN b.reg[<<a, r>>] ELSE NoDevice

ExtOf(b, a, d, x) == IF <<a, d, x>> \in DOMAIN b.ext THEN b.ext[<<a, d, x>>] ELSE NoDevice

SelOf(b, a) == IF a \in DOMAIN b.sel THEN b.sel[a] ELSE 0

\* the function bits (15:14) of the MMD access control register: 0 = address
MmdDataMode(b, a) == RegOf(b, a, Mii_MmdCtrl) \div MII_MMD_CTRL_NOINCR # 0

MmdDevAd(b, a) == RegOf(b, a, Mii_MmdCtrl) % 32

Proxies(b, a, r) == r = Mii_MmdData /\ <<a, Mii_MmdCtrl>> \in DOMAIN b.reg /\ MmdDataMode(b, a)

\* the value phy_read(a, r) returns
BusValue(b, a, r) ==
    IF Proxies(b, a, r) THEN ExtOf(b, a, MmdDevAd(b, a), SelOf(b, a)) ELSE RegOf(b, a, r)

Access(op, b, a, r, v) ==
    [op |-> op, phy |-> a, reg |-> r, val |-> v,
     xdev |-> IF Proxies(b, a, r) THEN MmdDevAd(b, a) ELSE NoExt,
     xreg |-> IF Proxies(b, a, r) THEN SelOf(b, a) ELSE NoExt]

\* A world is the bus with the accesses issued on it: [bus, trace].
\* phy_read(a, r): the world after the read; the value read is LastVal of it.
BusRead(w, a, r) ==
    LET w0 == w
        b == w0.bus
    IN  [bus |-> b, trace |-> Append(w0.trace, Access("r", b, a, r, BusValue(b, a, r)))]

LastVal(w) ==
    LET t == w.trace
    IN  t[Len(t)].val

\* phy_write(a, r, v)
BusWrite(w, a, r, data) ==
    LET w0 == w
        b == w0.bus
        v == data
        nb == IF Proxies(b, a, r)
              THEN [b EXCEPT !.ext = (<<a, MmdDevAd(b, a), SelOf(b, a)>> :> v) @@ b.ext]
              ELSE IF r = Mii_MmdData
              THEN [b EXCEPT !.sel = (a :> v) @@ b.sel,
                             !.reg = (<<a, r>> :> v) @@ b.reg]
              ELSE [b EXCEPT !.reg = (<<a, r>> :> v) @@ b.reg]
    IN  [bus |-> nb, trace |-> Append(w0.trace, Access("w", b, a, r, v))]

World == [bus |-> bus, trace |-> trace]

\* the statements of a handler run in program order: the world w the earlier
\* statements leave is settled before the next one runs
InOrder(w, next) == <<w, next>>[2]

Commit(w) == bus' = w.bus /\ trace' = w.trace

\* one finished call, with the part of the trace it issued
NextFirst == IF calls = <<>> THEN 1 ELSE calls[Len(calls)].last + 1

Call(op, w, ret) == [op |-> op, first |-> NextFirst, last |-> Len(w.trace), ret |-> ret]

---------------------------------------------------------------------------
(* lib.rs: Supported (the flags the engine reads), Speed, Duplex           *)

NoCaps ==
    [base10_t_half |-> FALSE, base10_t_full |-> FALSE,
     base100_t_half |-> FALSE, base100_t_full |-> FALSE,
     base1000_t_half |-> FALSE, base1000_t_full |-> FALSE,
     pause |-> FALSE, asym_pause |-> FALSE,
     base1000_x_half |-> FALSE, base1000_x_full |-> FALSE]

Supported ==
    [base10_t_half : BOOLEAN, base10_t_full : BOOLEAN,
     base100_t_half : BOOLEAN, base100_t_full : BOOLEAN,
     base1000_t_half : BOOLEAN, base1000_t_full : BOOLEAN,
     pause : BOOLEAN, asym_pause : BOOLEAN,
     base1000_x_half : BOOLEAN, base1000_x_full : BOOLEAN]

---------------------------------------------------------------------------
(* genphy.rs: detection                                                    *)

\* the test of is_valid_phy_reg on the value read
ValidPhyRegDropAllOnes(phyreg) == BitAnd(phyreg, PHYREG_MASK) = PHYREG_MASK

ValidPhyReg(phyreg) ==
    LET v == phyreg
    IN  (v # 65535) /\ (BitAnd(v, PHYREG_MASK) = PHYREG_MASK)

\* is_valid_phy_reg(phy_addr): one read of the detect register at phy_addr
is_valid_phy_reg(w, phy_addr) ==
    LET w1 == BusRead(w, phy_addr, PhyReg_DetectReg)
    IN  [w |-> w1, valid |-> ValidPhyReg(LastVal(w1))]

\* the scan run upwards from address i: the lowest valid address wins
RECURSIVE detect_scan_up(_, _)
detect_scan_up(w, i) ==
    IF i >= NumPhyAddrs THEN [w |-> w, ret |-> [kind |-> "Err", msg |-> "No valid reg found"]]
    ELSE LET t == is_valid_phy_reg(w, i)
         IN  IF t.valid THEN [w |-> t.w, ret |-> [kind |-> "Ok", addr |-> i]]
             ELSE detect_scan_up(t.w, i + 1)

detect_scan_ascending(w, i) == detect_scan_up(w, NumPhyAddrs - 1 - i)

\* for i in (0..32).rev() { if self.is_valid_phy_reg(i) { return Ok(i) } } Err(..)
RECURSIVE detect_scan(_, _)
detect_scan(w, i) ==
    IF i < 0 THEN [w |-> w, ret |-> [kind |-> "Err", msg |-> "No valid reg found"]]
    ELSE LET t == is_valid_phy_reg(w, i)
         IN  IF t.valid THEN [w |-> t.w, ret |-> [kind |-> "Ok", addr |-> i]]
             ELSE detect_scan(t.w, i - 1)

detect(w, phy_addr) ==
    LET t == is_valid_phy_reg(w, phy_addr)
    IN  IF t.valid THEN [w |-> t.w, ret |-> [kind |-> "Ok", addr |-> phy_addr]]
        ELSE detect_scan(t.w, NumPhyAddrs - 1)

\* what unwrap() makes of a Result
unwrap(result) ==
    LET r == result
    IN  IF r.ret.kind = "Err" THEN [w |-> r.w, ret |-> [kind |-> "Panic", msg |-> r.ret.msg]]
        ELSE r

\* GenPhy::new(addr, device, supported): gp.addr = gp.detect(addr).unwrap().
\* A panic builds no handle and returns nothing.
New ==
    /\ pc = "new"
    /\ LET d == unwrap(detect(World, gp.addr))
       IN  /\ Commit(d.w)
           /\ calls' = Append(calls, Call("new", d.w, d.ret))
           /\ IF d.ret.kind = "Ok"
              THEN gp' = [gp EXCEPT !.addr = d.ret.addr] /\ pc' = "ready"
              ELSE gp' = gp /\ pc' = "panicked"
    /\ UNCHANGED <<conf, polls>>

---------------------------------------------------------------------------
(* genphy.rs: register access of the engine, and the Reg mirror            *)

\* GenPhy::write(regnum, data)
write(w, g, regnum, data) == BusWrite(w, g.addr, regnum, data)

\* GenPhy::read(regnum)
read(w, g, regnum) == BusRead(w, g.addr, regnum)

\* Reg::from_read: one bus read; the mirror's value is LastVal of the result
Reg_from_read(w, g, regnum) == read(w, g, regnum)

\* a write-through that reads the register before it writes
Reg_phy_write_rereads(w, g, regnum, val) == write(read(w, g, regnum), g, regnum, val)

\* Reg::phy_write: one bus write of the mirror's value
Reg_phy_write(w, g, regnum, val) == write(w, g, regnum, val)

\* Reg::phy_read
Reg_phy_read(w, g, regnum) == read(w, g, regnum)

---------------------------------------------------------------------------
(* genphy.rs: indirect access to the MMD-extended registers                *)

\* the setup with the register number written ahead of the device address
phy_mmd_start_indirect_regnum_first(w, g, addr, regnum) ==
    write(write(write(w, g, Mii_MmdData, regnum),
                g, Mii_MmdCtrl, addr),
          g, Mii_MmdCtrl, BitOr(addr, MII_MMD_CTRL_NOINCR))

\* the setup leaving MMD-control in the address function (no data function bits)
phy_mmd_start_indirect_address_mode(w, g, addr, regnum) ==
    write(write(write(w, g, Mii_MmdCtrl, addr),
                g, Mii_MmdData, regnum),
          g, Mii_MmdCtrl, addr)

\* GenPhy::phy_mmd_start_indirect(addr, regnum): three writes, in this order
phy_mmd_start_indirect(w, g, addr, regnum) ==
    write(write(write(w, g, Mii_MmdCtrl, addr),
                g, Mii_MmdData, regnum),
          g, Mii_MmdCtrl, BitOr(addr, MII_MMD_CTRL_NOINCR))

\* GenPhy::read_mmd(addr, regnum)
read_mmd(w, g, addr, regnum) ==
    InOrder(w, read(phy_mmd_start_indirect(w, g, addr, regnum), g, Mii_MmdData))

\* a data write without the setup: it lands wherever the latch points
write_mmd_without_setup(w, g, addr, regnum, data) == write(w, g, Mii_MmdData, data)

\* GenPhy::write_mmd(addr, regnum, data)
write_mmd(w, g, addr, regnum, data) ==
    InOrder(w, write(phy_mmd_start_indirect(w, g, addr, regnum), g, Mii_MmdData, data))

\* MmdReg::from_read
MmdReg_from_read(w, g, regnum, mmd_addr) == read_mmd(w, g, mmd_addr, regnum)

\* MmdReg::phy_write
MmdReg_phy_write(w, g, regnum, mmd_addr, val) == write_mmd(w, g, mmd_addr, regnum, val)

\* reg().modify(fv) and phy_write() on a mirror just read: w is the world after
\* the read
Reg_modify_write(w, g, regnum, fv) ==
    Reg_phy_write(w, g, regnum, RegModify(LastVal(w), fv))

MmdReg_modify_write(w, g, regnum, mmd_addr, fv) ==
    MmdReg_phy_write(w, g, regnum, mmd_addr, RegModify(LastVal(w), fv))

\* Reg::from_read, reg().modify(fv), phy_write()
Reg_modify(w, g, regnum, fv) ==
    InOrder(w, Reg_modify_write(Reg_from_read(w, g, regnum), g, regnum, fv))

\* MmdReg::from_read, reg().modify(fv), phy_write()
MmdReg_modify(w, g, regnum, mmd_addr, fv) ==
    MmdReg_modify_write(MmdReg_from_read(w, g, regnum, mmd_addr), g, regnum, mmd_addr, fv)

---------------------------------------------------------------------------
(* genphy.rs: advertisement and negotiation restart                        *)

SetIf(flag, f) == IF flag THEN SET(f) ELSE CLEAR(f)

\* adv_mod without the two 1000BASE-X flags
adv_mod_without_1000x(supported) ==
    FvSum(<<SetIf(supported.base10_t_half, Advertise_HALF10),
            SetIf(supported.base10_t_full, Advertise_FULL10),
            SetIf(supported.base100_t_half, Advertise_HALF100),
            SetIf(supported.base100_t_full, Advertise_FULL100),
            SetIf(supported.pause, Advertise_PAUSE_CAP),
            SetIf(supported.asym_pause, Advertise_PAUSE_ASYM)>>)

\* adv_mod as config_advert sums it
adv_mod(supported) ==
    FvSum(<<SetIf(supported.base10_t_half, Advertise_HALF10),
            SetIf(supported.base10_t_full, Advertise_FULL10),
            SetIf(supported.base100_t_half, Advertise_HALF100),
            SetIf(supported.base100_t_full, Advertise_FULL100),
            SetIf(supported.pause, Advertise_PAUSE_CAP),
            SetIf(supported.asym_pause, Advertise_PAUSE_ASYM),
            SetIf(supported.base1000_x_half, Advertise_FULL10),
            SetIf(supported.base1000_x_full, Advertise_HALF10)>>)

\* the 1000BASE-T control value config_advert composes from the value read
base_ctrl_mod(supported, init_base_ctrl) ==
    LET c0 == RegModify(init_base_ctrl, FvAdd(CLEAR(Base1000TCtrl_FULL), CLEAR(Base1000TCtrl_HALF)))
        c1 == IF supported.base1000_t_half THEN RegModify(c0, SET(Base1000TCtrl_HALF)) ELSE c0
        c2 == IF supported.base1000_t_full THEN RegModify(c1, SET(Base1000TCtrl_FULL)) ELSE c1
    IN  c2

\* config_advert reporting only the change of the 1000BASE-T control register
config_advert_base_ctrl_forgets_adv(w, g, changed) ==
    LET init_base_ctrl == LastVal(w)
        base_ctrl == base_ctrl_mod(g.supported, init_base_ctrl)
    IN  IF base_ctrl # init_base_ctrl
        THEN [w |-> Reg_phy_write(w, g, Mii_Ctrl1000, base_ctrl),
              ret |-> [kind |-> "Ok", changed |-> TRUE]]
        ELSE [w |-> w, ret |-> [kind |-> "Ok", changed |-> FALSE]]

\* config_advert after the read of the 1000BASE-T control register (w)
config_advert_base_ctrl(w, g, changed) ==
    LET init_base_ctrl == LastVal(w)
        base_ctrl == base_ctrl_mod(g.supported, init_base_ctrl)
    IN  IF base_ctrl # init_base_ctrl
        THEN [w |-> Reg_phy_write(w, g, Mii_Ctrl1000, base_ctrl),
              ret |-> [kind |-> "Ok", changed |-> TRUE]]
        ELSE [w |-> w, ret |-> [kind |-> "Ok", changed |-> changed]]

\* the tail of config_advert, from the read of the 1000BASE-T control register
config_advert_gigabit(w, g, changed) ==
    config_advert_base_ctrl(Reg_from_read(w, g, Mii_Ctrl1000), g, changed)

\* the advertisement write of config_advert: only if the composed value differs
advert_write_always(w, g, adv, init_adv) == Reg_phy_write(w, g, Mii_Advertise, adv)

advert_write_never(w, g, adv, init_adv) == w

advert_write(w, g, adv, init_adv) ==
    IF adv # init_adv THEN Reg_phy_write(w, g, Mii_Advertise, adv) ELSE w

\* the ESTATEN gate of config_advert on the status value read
estaten_gate_gigabit_only(g, bmsr) ==
    (g.supported.base1000_t_half \/ g.supported.base1000_t_full)
        /\ ~RegIsSet(bmsr, SET(Bmsr_ESTATEN))

estaten_gate(g, bmsr) == ~RegIsSet(bmsr, SET(Bmsr_ESTATEN))

\* config_advert after the read of the status register (w)
config_advert_bmsr(w, g, changed) ==
    IF estaten_gate(g, LastVal(w))
    THEN [w |-> w, ret |-> [kind |-> "Err", msg |-> "Bad BMSR Setting"]]
    ELSE config_advert_gigabit(w, g, changed)

\* config_advert after the read of the advertisement register (w)
config_advert_adv(w, g) ==
    LET init_adv == LastVal(w)
        adv == RegModify(init_adv, adv_mod(g.supported))
    IN  config_advert_bmsr(Reg_from_read(advert_write(w, g, adv, init_adv), g, Mii_Bmsr),
                           g, adv # init_adv)

\* GenPhy::config_advert
config_advert(w, g) == InOrder(w, config_advert_adv(Reg_from_read(w, g, Mii_Advertise), g))

\* a restart that writes the three fields over a cleared register
restart_aneg_overwrite(w, g) ==
    Reg_phy_write(Reg_from_read(w, g, Mii_Bmcr), g, Mii_Bmcr,
        RegWrite(FvAdd(FvAdd(SET(Bmcr_ANENABLE), SET(Bmcr_ANRESTART)), CLEAR(Bmcr_ISOLATE))))

\* GenPhy::restart_aneg
restart_aneg(w, g) ==
    Reg_modify(w, g, Mii_Bmcr,
        FvAdd(FvAdd(SET(Bmcr_ANENABLE), SET(Bmcr_ANRESTART)), CLEAR(Bmcr_ISOLATE)))

\* config_aneg after the read of the control register (w)
config_aneg_bmcr_isolate_only(w, g) ==
    [w |-> IF RegMatchesAny(LastVal(w), {SET(Bmcr_ISOLATE)})
           THEN restart_aneg(w, g) ELSE w,
     ret |-> [kind |-> "Ok"]]

\* config_aneg restarting a negotiation that is enabled
config_aneg_bmcr_anenable_set(w, g) ==
    [w |-> IF RegMatchesAny(LastVal(w), {SET(Bmcr_ISOLATE), SET(Bmcr_ANENABLE)})
           THEN restart_aneg(w, g) ELSE w,
     ret |-> [kind |-> "Ok"]]

config_aneg_bmcr(w, g) ==
    [w |-> IF RegMatchesAny(LastVal(w), {SET(Bmcr_ISOLATE), CLEAR(Bmcr_ANENABLE)})
           THEN restart_aneg(w, g) ELSE w,
     ret |-> [kind |-> "Ok"]]

\* config_aneg restarting the negotiation before it passes the error on
config_aneg_changed_restarts_on_error(a, g) ==
    IF a.ret.kind = "Err" THEN [w |-> restart_aneg(a.w, g), ret |-> a.ret]
    ELSE IF a.ret.changed THEN [w |-> restart_aneg(a.w, g), ret |-> [kind |-> "Ok"]]
    ELSE config_aneg_bmcr(Reg_from_read(a.w, g, Mii_Bmcr), g)

\* config_aneg after config_advert()? returned a
config_aneg_changed(a, g) ==
    IF a.ret.kind = "Err" THEN a
    ELSE IF a.ret.changed THEN [w |-> restart_aneg(a.w, g), ret |-> [kind |-> "Ok"]]
    ELSE config_aneg_bmcr(Reg_from_read(a.w, g, Mii_Bmcr), g)

\* GenPhy::config_aneg
config_aneg(w, g) == config_aneg_changed(config_advert(w, g), g)

\* how many calls the caller makes on one engine
MaxCalls == 2

\* the call op returns r: its accesses are on the bus and in the trace
Return(op, r) ==
    /\ Commit(r.w)
    /\ calls' = Append(calls, Call(op, r.w, r.ret))
    /\ pc' = IF r.ret.kind = "Panic" THEN "panicked" ELSE "ready"

\* the caller invokes config_advert()
ConfigAdvert ==
    /\ pc = "ready"
    /\ Len(calls) < MaxCalls
    /\ \E r \in {config_advert(World, gp)} : Return("config_advert", r)
    /\ UNCHANGED <<gp, conf, polls>>

\* the caller invokes config_aneg()
ConfigAneg ==
    /\ pc = "ready"
    /\ Len(calls) < MaxCalls
    /\ \E r \in {config_aneg(World, gp)} : Return("config_aneg", r)
    /\ UNCHANGED <<gp, conf, polls>>

---------------------------------------------------------------------------
(* genphy.rs: link resolution                                              *)

Link(speed, duplex) == [kind |-> "Ok", speed |-> speed, duplex |-> duplex]

\* the gigabit intersection taken without aligning the control register
gblpa_val_unshifted(stat1000, ctrl1000) == BitAnd(stat1000, ctrl1000)

\* the gigabit intersection: Stat1000 & (Ctrl1000 << 2)
gblpa_val(stat1000, ctrl1000) == BitAnd(stat1000, Shl16(ctrl1000, 2))

\* the 10/100 resolution on adv &= lpa, from the defaults (S10, Half)
resolve_10_100_half_first(adv) ==
    IF RegAnyMatchingBitsSet(adv, FvAdd(SET(Advertise_FULL100), SET(Advertise_HALF100)))
    THEN Link("S100", IF RegIsSet(adv, SET(Advertise_HALF100)) THEN "Half" ELSE "Full")
    ELSE IF RegIsSet(adv, SET(Advertise_FULL10)) THEN Link("S10", "Full")
    ELSE Link("S10", "Half")

\* the 10/100 resolution leaving the default duplex when no 100 Mbps bit is common
resolve_10_100_default_half(adv) ==
    IF RegAnyMatchingBitsSet(adv, FvAdd(SET(Advertise_FULL100), SET(Advertise_HALF100)))
    THEN Link("S100", IF RegIsSet(adv, SET(Advertise_FULL100)) THEN "Full" ELSE "Half")
    ELSE Link("S10", "Half")

resolve_10_100(adv) ==
    IF RegAnyMatchingBitsSet(adv, FvAdd(SET(Advertise_FULL100), SET(Advertise_HALF100)))
    THEN Link("S100", IF RegIsSet(adv, SET(Advertise_FULL100)) THEN "Full" ELSE "Half")
    ELSE IF RegIsSet(adv, SET(Advertise_FULL10)) THEN Link("S10", "Full")
    ELSE Link("S10", "Half")

\* the extended-status fallback applied to the result so far
resolve_estatus(link, val) ==
    LET estatus == val
    IN  IF RegAnyMatchingBitsSet(estatus,
               FvAdd(FvAdd(FvAdd(SET(Estatus_TFULL1000), SET(Estatus_THALF1000)),
                           SET(Estatus_XFULL1000)), SET(Estatus_XHALF1000)))
        THEN Link("S1000",
                  IF RegAnyMatchingBitsSet(estatus,
                         FvAdd(SET(Estatus_TFULL1000), SET(Estatus_XFULL1000)))
                  THEN "Full" ELSE link.duplex)
        ELSE link

\* parse_link after the read of the extended status register (w)
parse_link_estatus(w, link) == [w |-> w, ret |-> resolve_estatus(link, LastVal(w))]

\* parse_link after the read of the status register (w)
parse_link_bmsr(w, g, link) ==
    IF RegMatchesAll(LastVal(w), FvAdd(SET(Bmsr_ESTATEN), CLEAR(Bmsr_ERCAP)))
    THEN parse_link_estatus(Reg_from_read(w, g, Mii_EStatus), link)
    ELSE [w |-> w, ret |-> link]

\* parse_link after the read of the partner register (w); adv as read before
parse_link_lpa(w, g, adv) ==
    parse_link_bmsr(Reg_from_read(w, g, Mii_Bmsr), g, resolve_10_100(BitAnd(adv, LastVal(w))))

\* parse_link after the read of the advertisement register (w)
parse_link_adv(w, g) == parse_link_lpa(Reg_from_read(w, g, Mii_Lpa), g, LastVal(w))

\* parse_link from the advertisement read on (lines 486-537)
parse_link_low(w, g) == parse_link_adv(Reg_from_read(w, g, Mii_Advertise), g)

\* parse_link with the gigabit check not returning early
parse_link_gigabit_falls_through(w, g) ==
    IF g.supported.base1000_t_full \/ g.supported.base1000_t_half
    THEN parse_link_low(read(Reg_from_read(w, g, Mii_Stat1000), g, Mii_Ctrl1000), g)
    ELSE parse_link_low(w, g)

\* parse_link writing the gigabit intersection back to the status register
parse_link_ctrl1000_writes_back(w, g, stat1000) ==
    LET gblpa == gblpa_val(stat1000, LastVal(w))
    IN  IF RegAnyMatchingBitsSet(gblpa,
               FvAdd(SET(Stat1000_BTSR_1000FD), SET(Stat1000_BTSR_1000HD)))
        THEN [w |-> Reg_phy_write(w, g, Mii_Stat1000, gblpa),
              ret |-> Link("S1000",
                           IF RegIsSet(gblpa, SET(Stat1000_BTSR_1000FD)) THEN "Full" ELSE "Half")]
        ELSE parse_link_low(Reg_phy_write(w, g, Mii_Stat1000, gblpa), g)

\* parse_link after the read of the 1000BASE-T control register (w); stat1000
\* as read before
parse_link_ctrl1000(w, g, stat1000) ==
    LET gblpa == gblpa_val(stat1000, LastVal(w))
    IN  IF RegAnyMatchingBitsSet(gblpa,
               FvAdd(SET(Stat1000_BTSR_1000FD), SET(Stat1000_BTSR_1000HD)))
        THEN [w |-> w,
              ret |-> Link("S1000",
                           IF RegIsSet(gblpa, SET(Stat1000_BTSR_1000FD)) THEN "Full" ELSE "Half")]
        ELSE parse_link_low(w, g)

\* parse_link after the read of the 1000BASE-T status register (w)
parse_link_stat1000(w, g) == parse_link_ctrl1000(read(w, g, Mii_Ctrl1000), g, LastVal(w))

\* GenPhy::parse_link
parse_link(w, g) ==
    IF g.supported.base1000_t_full \/ g.supported.base1000_t_half
    THEN parse_link_stat1000(Reg_from_read(w, g, Mii_Stat1000), g)
    ELSE parse_link_low(w, g)

\* the caller invokes parse_link()
ParseLink ==
    /\ pc = "ready"
    /\ Len(calls) < MaxCalls
    /\ \E r \in {parse_link(World, gp)} : Return("parse_link", r)
    /\ UNCHANGED <<gp, conf, polls>>

---------------------------------------------------------------------------
(* dp83867.rs: the configuration record                                    *)

PortMirroring == {"KEEP", "ENABLE", "DISABLE"}

\* Option<u16>: None
None == -1

RgmiiModes == {"Rgmii", "RgmiiId", "RgmiiRxid", "RgmiiTxid"}

\* PhyInterface::is_rgmii
is_rgmii(interface) == interface \in RgmiiModes

DefaultConf ==
    [rx_id_delay |-> 0, tx_id_delay |-> 0, fifo_depth |-> 0, io_impedance |-> None,
     rxctrl_strap_quirk |-> FALSE, port_mirroring |-> "KEEP", set_clk_output |-> FALSE,
     clk_output_sel |-> None, sgmii_ref_clk_en |-> FALSE, interface |-> "Na"]

---------------------------------------------------------------------------
(* dp83867.rs: the vendor configuration                                    *)

\* the RGMII-delay-control value rgmii_config composes
rgmiid_ctl_val_fields_swapped(rx_id_delay, tx_id_delay) ==
    RegWrite(FvAdd(VAL(RgmiiDCtl_TX_DELAY_CTRL, rx_id_delay),
                   VAL(RgmiiDCtl_RX_DELAY_CTRL, tx_id_delay)))

rgmiid_ctl_val(rx_id_delay, tx_id_delay) ==
    RegWrite(FvAdd(VAL(RgmiiDCtl_RX_DELAY_CTRL, rx_id_delay),
                   VAL(RgmiiDCtl_TX_DELAY_CTRL, tx_id_delay)))

\* the clock-delay enables with the TX-only and RX-only variants exchanged
rgmii_ctl_mod_txid_rxid_swapped(interface) ==
    CASE interface = "RgmiiId" ->
             FvAdd(SET(RgmiiCtl_TX_CLK_DELAY), SET(RgmiiCtl_RX_CLK_DELAY))
      [] interface = "RgmiiRxid" ->
             FvAdd(SET(RgmiiCtl_TX_CLK_DELAY), CLEAR(RgmiiCtl_RX_CLK_DELAY))
      [] interface = "RgmiiTxid" ->
             FvAdd(CLEAR(RgmiiCtl_TX_CLK_DELAY), SET(RgmiiCtl_RX_CLK_DELAY))
      [] OTHER ->
             FvAdd(CLEAR(RgmiiCtl_TX_CLK_DELAY), CLEAR(RgmiiCtl_RX_CLK_DELAY))

\* the clock-delay enables rgmii_config selects for the interface
rgmii_ctl_mod(interface) ==
    CASE interface = "RgmiiId" ->
             FvAdd(SET(RgmiiCtl_TX_CLK_DELAY), SET(RgmiiCtl_RX_CLK_DELAY))
      [] interface = "RgmiiTxid" ->
             FvAdd(SET(RgmiiCtl_TX_CLK_DELAY), CLEAR(RgmiiCtl_RX_CLK_DELAY))
      [] interface = "RgmiiRxid" ->
             FvAdd(CLEAR(RgmiiCtl_TX_CLK_DELAY), SET(RgmiiCtl_RX_CLK_DELAY))
      [] OTHER ->
             FvAdd(CLEAR(RgmiiCtl_TX_CLK_DELAY), CLEAR(RgmiiCtl_RX_CLK_DELAY))

\* rgmii_config writing PhyCtrl without looking at the strap status read
rgmii_config_strap_ignored(w, g, phy_ctrl) ==
    InOrder(w, Reg_phy_write(w, g, Dp83867Reg_PhyCtrl, phy_ctrl))

\* rgmii_config after the read of StrapSts1 (w); phy_ctrl the mirror of PhyCtrl
rgmii_config_strap(w, g, phy_ctrl) ==
    InOrder(w, Reg_phy_write(w, g, Dp83867Reg_PhyCtrl,
                   IF RegIsSet(LastVal(w), SET(StrapSts1_RESERVED))
                   THEN RegModify(phy_ctrl, CLEAR(PhyCr_SGMIIEN)) ELSE phy_ctrl))

\* rgmii_config after the read of PhyCtrl (w)
rgmii_config_phy_ctrl(w, g, cf) ==
    rgmii_config_strap(MmdReg_from_read(w, g, Dp83867Reg_StrapSts1, DP83867_DEVADDR), g,
        RegModify(LastVal(w),
            FvAdd(VAL(PhyCr_TX_FIFO_DEPTH, cf.fifo_depth), CLEAR(PhyCr_FORCE_LINK_GOOD))))

\* Phy::rgmii_config
rgmii_config(w, g, cf) ==
    MmdReg_phy_write(
        MmdReg_modify(
            rgmii_config_phy_ctrl(Reg_from_read(w, g, Dp83867Reg_PhyCtrl), g, cf),
            g, Dp83867Reg_RgmiiCtl, DP83867_DEVADDR, rgmii_ctl_mod(cf.interface)),
        g, Dp83867Reg_RgmiiDCtl, DP83867_DEVADDR,
        rgmiid_ctl_val(cf.rx_id_delay, cf.tx_id_delay))

\* sgmii_config enabling the reference clock whatever the record says
sgmii_config_ref_clk_always(w, g, cf) ==
    MmdReg_phy_write(w, g, Dp83867Reg_SgmiiCtl, DP83867_DEVADDR,
                     RegWrite(SET(SgmiiCtl_REF_CLK_EN)))

\* the first step of sgmii_config: the reference clock enable
sgmii_config_ref_clk(w, g, cf) ==
    IF cf.sgmii_ref_clk_en
    THEN MmdReg_phy_write(w, g, Dp83867Reg_SgmiiCtl, DP83867_DEVADDR,
                          RegWrite(SET(SgmiiCtl_REF_CLK_EN)))
    ELSE w

\* Phy::sgmii_config
sgmii_config(w, g, cf) ==
    write(
        Reg_phy_write(
            MmdReg_phy_write(
                Reg_modify(
                    Reg_phy_write(sgmii_config_ref_clk(w, g, cf), g, Mii_Bmcr,
                        RegWrite(FvAdd(FvAdd(SET(Bmcr_ANENABLE), SET(Bmcr_FULLDPLX)),
                                       SET(Bmcr_SPEED1000)))),
                    g, Dp83867Reg_Cfg2,
                    FvAdd(FvAdd(FvAdd(FvAdd(SET(Cfg2_SPEED_OPT10M), SET(Cfg2_SGMII_AUTONEGEN)),
                        SET(Cfg2_SPEED_OPT_ENHANCED)),
                        VAL(Cfg2_SPEED_OPT_ATTEMPT_CNT, Cfg2_SPEED_OPT_ATTEMPT_CNT_N4)),
                        VAL(Cfg2_INTERRUPT_POLARITY, Cfg2_INTERRUPT_POLARITY_Low))),
                g, Dp83867Reg_RgmiiCtl, DP83867_DEVADDR, 0),
            g, Dp83867Reg_PhyCtrl,
            RegWrite(FvAdd(FvAdd(FvAdd(SET(PhyCr_SGMIIEN),
                VAL(PhyCr_MDI_CROSSOVER, PhyCr_MDI_CROSSOVER_Auto)),
                VAL(PhyCr_RX_FIFO_DEPTH, cf.fifo_depth)),
                VAL(PhyCr_TX_FIFO_DEPTH, cf.fifo_depth)))),
        g, Dp83867Reg_Biscr, 0)

\* Cfg4 reached as if it were a direct register
cfg4_modify_direct(w, g, fv) == Reg_modify(w, g, Dp83867Reg_Cfg4, fv)

\* the read-modify-write of Cfg4 with the given field value
cfg4_modify(w, g, fv) == MmdReg_modify(w, g, Dp83867Reg_Cfg4, DP83867_DEVADDR, fv)

config_port_mirroring_keep_disables(w, g, cf) ==
    InOrder(w,
        IF cf.port_mirroring = "ENABLE" THEN cfg4_modify(w, g, SET(Cfg4_PORT_MIRROR_EN))
        ELSE cfg4_modify(w, g, CLEAR(Cfg4_PORT_MIRROR_EN)))

\* Phy::config_port_mirroring
config_port_mirroring(w, g, cf) ==
    InOrder(w,
        CASE cf.port_mirroring = "ENABLE" -> cfg4_modify(w, g, SET(Cfg4_PORT_MIRROR_EN))
          [] cf.port_mirroring = "DISABLE" -> cfg4_modify(w, g, CLEAR(Cfg4_PORT_MIRROR_EN))
          [] cf.port_mirroring = "KEEP" -> w)

\* the read-modify-write of IoMuxCfg with the given field value
io_mux_modify(w, g, fv) == MmdReg_modify(w, g, Dp83867Reg_IoMuxCfg, DP83867_DEVADDR, fv)

\* config: restart the PHY
config_sw_restart(w, g) == Reg_modify(w, g, Dp83867Reg_Ctrl, SET(Ctrl_SW_RESTART))

\* config: the mode 1 or 2 workaround
config_strap_quirk(w, g, cf) ==
    InOrder(w, IF cf.rxctrl_strap_quirk THEN cfg4_modify(w, g, CLEAR(Cfg4_INT_TST_MODE_1)) ELSE w)

\* config: the interface-specific configuration
config_interface(w, g, cf) ==
    InOrder(w, IF is_rgmii(cf.interface) THEN rgmii_config(w, g, cf)
               ELSE IF cf.interface = "Sgmii" THEN sgmii_config(w, g, cf)
               ELSE w)

\* config: the output impedance
config_io_impedance(w, g, cf) ==
    InOrder(w, IF cf.io_impedance # None
               THEN io_mux_modify(w, g, VAL(IoMuxCfg_IO_IMPEDENCE_CTRL, cf.io_impedance))
               ELSE w)

\* the clock output selection written as a fresh value, not merged with the register
config_clk_output_overwrites(w, g, cf) ==
    InOrder(w,
        IF cf.set_clk_output
        THEN MmdReg_phy_write(w, g, Dp83867Reg_IoMuxCfg, DP83867_DEVADDR,
                 RegWrite(IF cf.clk_output_sel = None THEN SET(IoMuxCfg_CLK_O_DISABLE)
                          ELSE FvAdd(CLEAR(IoMuxCfg_CLK_O_DISABLE),
                                     VAL(IoMuxCfg_CLK_O_SEL, cf.clk_output_sel))))
        ELSE w)

\* config: the clock output selection
config_clk_output(w, g, cf) ==
    InOrder(w,
        IF cf.set_clk_output
        THEN io_mux_modify(w, g,
                 IF cf.clk_output_sel = None THEN SET(IoMuxCfg_CLK_O_DISABLE)
                 ELSE FvAdd(CLEAR(IoMuxCfg_CLK_O_DISABLE),
                            VAL(IoMuxCfg_CLK_O_SEL, cf.clk_output_sel)))
        ELSE w)

\* config with the port-mirroring step ahead of the impedance step
config_mirroring_before_impedance(w, g, cf) ==
    unwrap(config_aneg(
        config_clk_output(
            config_io_impedance(
                config_port_mirroring(
                    config_interface(
                        config_strap_quirk(
                            config_sw_restart(w, g),
                            g, cf),
                        g, cf),
                    g, cf),
                g, cf),
            g, cf),
        g))

\* SpecPhy::config for Phy: the steps in program order, then
\* self.genphy.config_aneg().unwrap()
config(w, g, cf) ==
    unwrap(config_aneg(
        config_clk_output(
            config_port_mirroring(
                config_io_impedance(
                    config_interface(
                        config_strap_quirk(
                            config_sw_restart(w, g),
                            g, cf),
                        g, cf),
                    g, cf),
                g, cf),
            g, cf),
        g))

\* the caller invokes config() on the vendor engine
Config ==
    /\ pc = "ready"
    /\ Len(calls) < MaxCalls
    /\ \E r \in {config(World, gp, conf)} : Return("config", r)
    /\ UNCHANGED <<gp, conf, polls>>

---------------------------------------------------------------------------
(* genphy.rs: update_link, startup; lib.rs: configure_phy                  *)

\* update_link returning on a complete negotiation without the second read
update_link_bmsr_no_second_read(w, g) ==
    IF RegIsSet(LastVal(w), SET(Bmsr_LSTATUS)) \/ RegIsSet(LastVal(w), SET(Bmsr_ANEGCOMPLETE))
    THEN [w |-> w, waiting |-> FALSE]
    ELSE [w |-> w, waiting |-> TRUE]

\* update_link after its first status read (w): the second read that clears
\* the latched link bit, or the wait loop.  waiting: the loop has to run.
update_link_bmsr(w, g) ==
    IF RegIsSet(LastVal(w), SET(Bmsr_LSTATUS)) THEN [w |-> w, waiting |-> FALSE]
    ELSE IF RegIsSet(LastVal(w), SET(Bmsr_ANEGCOMPLETE))
    THEN [w |-> Reg_phy_read(w, g, Mii_Bmsr), waiting |-> FALSE]
    ELSE [w |-> w, waiting |-> TRUE]

\* startup() going to parse_link() without update_link()
update_link_skipped(w, g) == [w |-> w, waiting |-> FALSE]

\* update_link up to its wait loop
update_link_first(w, g) == update_link_bmsr(Reg_from_read(w, g, Mii_Bmsr), g)

\* how many iterations of the wait loop the model follows
MaxPolls == 2

\* startup() within the call op, after update_link reached u: parse_link() and
\* return, unless the wait loop has to run first
StartupFrom(op, u) ==
    IF u.waiting
    THEN Commit(u.w) /\ pc' = op /\ calls' = calls
    ELSE \E r \in {parse_link(u.w, gp)} : Return(op, r)

\* the caller invokes startup(): update_link(), then parse_link()
Startup ==
    /\ pc = "ready"
    /\ Len(calls) < MaxCalls
    /\ \E u \in {update_link_first(World, gp)} : StartupFrom("startup", u)
    /\ UNCHANGED <<gp, conf, polls>>

\* the caller invokes configure_phy(gen_phy, phy): phy.config(), then gen_phy.startup()
ConfigurePhy ==
    /\ pc = "ready"
    /\ Len(calls) < MaxCalls
    /\ \E c \in {config(World, gp, conf)} :
           IF c.ret.kind = "Panic"
           THEN Return("configure_phy", c)
           ELSE \E u \in {update_link_first(c.w, gp)} : StartupFrom("configure_phy", u)
    /\ UNCHANGED <<gp, conf, polls>>

\* the wait loop leaving as soon as a polled value shows the link, negotiated or not
PollUntilLink ==
    /\ pc \in {"startup", "configure_phy"}
    /\ polls < MaxPolls
    /\ \E w1 \in {Reg_phy_read(World, gp, Mii_Bmsr)} :
           IF RegIsSet(LastVal(w1), SET(Bmsr_ANEGCOMPLETE)) \/ RegIsSet(LastVal(w1), SET(Bmsr_LSTATUS))
           THEN (\E r \in {parse_link(w1, gp)} : Return(pc, r)) /\ polls' = 0
           ELSE Commit(w1) /\ pc' = pc /\ polls' = polls + 1 /\ calls' = calls
    /\ UNCHANGED <<gp, conf>>

\* the wait loop reading the status once more after the value that ends it
PollReadsAgain ==
    /\ pc \in {"startup", "configure_phy"}
    /\ polls < MaxPolls
    /\ \E w1 \in {Reg_phy_read(World, gp, Mii_Bmsr)} :
           IF RegIsSet(LastVal(w1), SET(Bmsr_ANEGCOMPLETE))
           THEN (\E r \in {parse_link(Reg_phy_read(w1, gp, Mii_Bmsr), gp)} : Return(pc, r))
                /\ polls' = 0
           ELSE Commit(w1) /\ pc' = pc /\ polls' = polls + 1 /\ calls' = calls
    /\ UNCHANGED <<gp, conf>>

\* one iteration of while !bmsr.is_set(ANEGCOMPLETE) { bmsr.phy_read(); }; when
\* the value read ends the loop, parse_link() runs and the call returns
Poll ==
    /\ pc \in {"startup", "configure_phy"}
    /\ polls < MaxPolls
    /\ \E w1 \in {Reg_phy_read(World, gp, Mii_Bmsr)} :
           IF RegIsSet(LastVal(w1), SET(Bmsr_ANEGCOMPLETE))
           THEN (\E r \in {parse_link(w1, gp)} : Return(pc, r)) /\ polls' = 0
           ELSE Commit(w1) /\ pc' = pc /\ polls' = polls + 1 /\ calls' = calls
    /\ UNCHANGED <<gp, conf>>

\* the PHY, while the engine waits: negotiation completes, with or without link
PhyNegotiates ==
    /\ pc \in {"startup", "configure_phy"}
    /\ ~RegIsSet(RegOf(bus, gp.addr, Mii_Bmsr), SET(Bmsr_ANEGCOMPLETE))
    /\ \E up \in {SET(Bmsr_ANEGCOMPLETE), FvAdd(SET(Bmsr_ANEGCOMPLETE), SET(Bmsr_LSTATUS))} :
           bus' = [bus EXCEPT !.reg[<<gp.addr, Mii_Bmsr>>] = BitOr(@, up.value)]
    /\ UNCHANGED <<trace, gp, conf, pc, calls, polls>>

---------------------------------------------------------------------------
(* Detection scenario: PHYs answer the detect register with a valid value  *)
(* at up to MaxPhys addresses; every other address answers the idle value. *)

MaxPhys == 2

\* the addresses where several PHYs are tried together
PhySlots == {0, 5, 17, 31}

RECURSIVE SlotSets(_)
SlotSets(n) ==
    IF n = 0 THEN {{}}
    ELSE LET p == SlotSets(n - 1)
         IN  p \cup {s \cup {a} : s \in p, a \in PhySlots}

\* one PHY at any address, or up to MaxPhys of them at the slots
AddrSets(n) ==
    SlotSets(n) \cup (IF n = 0 THEN {} ELSE {{a} : a \in 0..(NumPhyAddrs - 1)})

\* 0x796D: a BMSR as a gigabit PHY reports it; 0x1808: exactly the mask
DetectValid == {31085, 6152}

\* 0xFFFF: nothing answers; 0x0808: a device without bit 12 of the mask
DetectIdle == {65535, 2056}

EmptyBus == [reg |-> <<>>, ext |-> <<>>, sel |-> <<>>]

DetectBus(present, up, idle) ==
    [EmptyBus EXCEPT !.reg = [k \in {<<a, PhyReg_DetectReg>> : a \in 0..(NumPhyAddrs - 1)} |->
                                 IF k[1] \in present THEN up ELSE idle]]

InitDetect ==
    /\ \E present \in AddrSets(MaxPhys), up \in DetectValid, idle \in DetectIdle :
           bus = DetectBus(present, up, idle)
    /\ trace = <<>>
    /\ \E addr \in 0..(NumPhyAddrs - 1) : gp = [addr |-> addr, supported |-> NoCaps]
    /\ conf = DefaultConf
    /\ pc = "new"
    /\ calls = <<>>
    /\ polls = 0

SpecDetect == InitDetect /\ [][New]_vars

\* the addresses whose detect register answers as a PHY does: not the idle
\* value 0xFFFF, and bits 3, 11 and 12 (0x1808) all set
ValidAddrs(b) ==
    {a \in 0..(NumPhyAddrs - 1) :
        LET v == BusValue(b, a, PhyReg_DetectReg)
        IN  v # NoDevice /\ Bit(v, 3) /\ Bit(v, 11) /\ Bit(v, 12)}

Returned(op) == calls # <<>> /\ calls[Len(calls)].op = op

LastCall == calls[Len(calls)]

\* the address the caller asked for: the first read new() issues is at it
Requested == trace[LastCall.first].phy

\* C1: when exactly one address A in 0..31 holds a valid detect value, new()
\* with any requested address in 0..31 builds an engine whose address is A.
C1_DetectsOnlyValid ==
    (Returned("new") /\ Cardinality(ValidAddrs(bus)) = 1)
        => /\ LastCall.ret.kind = "Ok"
           /\ pc = "ready"
           /\ gp.addr \in ValidAddrs(bus)

C1_Witness ==
    /\ Returned("new")
    /\ ValidAddrs(bus) = {17}
    /\ Requested = 3
    /\ gp.addr = 17

\* C2: when no address holds a valid detect value, new() returns the NoPhyFound
\* error to its caller as a Result error value.
C2_NoPhyReturnsErr ==
    (Returned("new") /\ ValidAddrs(bus) = {})
        => LastCall.ret.kind = "Err"

\* what the code does instead: the failed detection panics inside new()
C2_NoPhyPanics ==
    (Returned("new") /\ ValidAddrs(bus) = {})
        => /\ LastCall.ret.kind = "Panic"
           /\ pc = "panicked"
           /\ LastCall.last - LastCall.first + 1 = NumPhyAddrs + 1

---------------------------------------------------------------------------
(* Capability Sets and register banks the scenarios draw from              *)

CapNames ==
    {"base10_t_half", "base10_t_full", "base100_t_half", "base100_t_full",
     "base1000_t_half", "base1000_t_full", "pause", "asym_pause",
     "base1000_x_half", "base1000_x_full"}

CapsOf(S) ==
    [base10_t_half |-> "base10_t_half" \in S, base10_t_full |-> "base10_t_full" \in S,
     base100_t_half |-> "base100_t_half" \in S, base100_t_full |-> "base100_t_full" \in S,
     base1000_t_half |-> "base1000_t_half" \in S, base1000_t_full |-> "base1000_t_full" \in S,
     pause |-> "pause" \in S, asym_pause |-> "asym_pause" \in S,
     base1000_x_half |-> "base1000_x_half" \in S, base1000_x_full |-> "base1000_x_full" \in S]

\* how many flags a drawn Capability Set has set (the full set is drawn too)
MaxCapFlags == 2

RECURSIVE NameSets(_)
NameSets(n) ==
    IF n = 0 THEN {{}}
    ELSE LET p == NameSets(n - 1)
         IN  p \cup {s \cup {c} : s \in p, c \in CapNames}

CapSets == {CapsOf(S) : S \in NameSets(MaxCapFlags) \cup {CapNames}}

\* the address of the engine in the scenarios that start after construction
PhyAddr == 17

\* a bus holding the given direct registers of the PHY at PhyAddr
BankBus(regs) ==
    [EmptyBus EXCEPT !.reg = [k \in {<<PhyAddr, r>> : r \in DOMAIN regs} |-> regs[k[2]]]]

---------------------------------------------------------------------------
(* Advertisement scenario: a constructed engine; the caller invokes        *)
(* config_advert() and config_aneg(), MaxCalls times in all.               *)

\* 0x0001 selector only; 0x01E1 10/100 half and full; 0x0DE1 with both pause bits
AdvertiseVals == {1, 481, 3553}

\* 0x796D with ESTATEN; 0x7849 without it (and without link, negotiation not complete)
BmsrGateVals == {31085, 30793}

\* 0x0000; 0x0300 half and full; 0x0200 full
Ctrl1000Vals == {0, 768, 512}

\* 0x1140 negotiation enabled; 0x0140 negotiation off; 0x1540 enabled and isolated
BmcrVals == {4416, 320, 5440}

InitAneg ==
    /\ \E adv \in AdvertiseVals, bmsr \in BmsrGateVals, c1000 \in Ctrl1000Vals, bmcr \in BmcrVals :
           bus = BankBus((Mii_Advertise :> adv) @@ (Mii_Bmsr :> bmsr)
                         @@ (Mii_Ctrl1000 :> c1000) @@ (Mii_Bmcr :> bmcr))
    /\ trace = <<>>
    /\ \E caps \in CapSets : gp = [addr |-> PhyAddr, supported |-> caps]
    /\ conf = DefaultConf
    /\ pc = "ready"
    /\ calls = <<>>
    /\ polls = 0

NextAneg == ConfigAdvert \/ ConfigAneg

SpecAneg == InitAneg /\ [][NextAneg]_vars

\* the writes call c issued, and its reads of register r
Writes(c) == {i \in c.first..c.last : trace[i].op = "w"}

ReadsOf(c, r) == {i \in c.first..c.last : trace[i].op = "r" /\ trace[i].reg = r}

\* C3: of two config_advert() calls in a row on a bank that stores what is
\* written, the second issues no bus write and never reports a change; it
\* returns changed = false whenever the first call succeeded.
C3_AdvertIdempotent ==
    \A i \in 1..(Len(calls) - 1) :
        (calls[i].op = "config_advert" /\ calls[i + 1].op = "config_advert")
            => /\ Writes(calls[i + 1]) = {}
               /\ calls[i + 1].ret # [kind |-> "Ok", changed |-> TRUE]
               /\ calls[i].ret.kind = "Ok" => calls[i + 1].ret = [kind |-> "Ok", changed |-> FALSE]

C3_Witness ==
    /\ Len(calls) = 2
    /\ calls[1].op = "config_advert" /\ calls[2].op = "config_advert"
    /\ calls[1].ret = [kind |-> "Ok", changed |-> TRUE]
    /\ Cardinality(Writes(calls[1])) = 2
    /\ calls[2].ret = [kind |-> "Ok", changed |-> FALSE]

\* C4: a config_advert() call whose status read has ESTATEN (bit 8) clear
\* fails with the capability error, whatever the Capability Set holds.
C4_CapabilityGate ==
    \A i \in 1..Len(calls) :
        (calls[i].op = "config_advert"
            /\ \E k \in ReadsOf(calls[i], Mii_Bmsr) : ~RegIsSet(trace[k].val, SET(Bmsr_ESTATEN)))
            => calls[i].ret = [kind |-> "Err", msg |-> "Bad BMSR Setting"]

C4_Witness ==
    /\ Returned("config_advert")
    /\ ~gp.supported.base1000_t_half /\ ~gp.supported.base1000_t_full
    /\ gp.supported.base100_t_full
    /\ \E k \in ReadsOf(LastCall, Mii_Bmsr) : ~RegIsSet(trace[k].val, SET(Bmsr_ESTATEN))
    /\ LastCall.ret.kind = "Err"

---------------------------------------------------------------------------
(* Link scenario: a constructed engine on a bank holding the status and    *)
(* partner registers; the caller invokes parse_link(), MaxCalls times.     *)

\* no gigabit; half only; full only; both
GigabitCaps ==
    {CapsOf(S) : S \in {{"base100_t_full"}, {"base1000_t_half"}, {"base1000_t_full"},
                        {"base1000_t_half", "base1000_t_full"}}}

\* 0x0000; 0x0400 partner half; 0x0800 partner full; 0x3C00 both, receivers ok
Stat1000Vals == {0, 1024, 2048, 15360}

\* 0x0000; 0x0100 half; 0x0200 full; 0x4300 both and a bit the shift discards
LinkCtrl1000Vals == {0, 256, 512, 17152}

\* 0x0001; 0x0021 half-10; 0x0081 half-100; 0x0101 full-100; 0x01E1 all of 10/100
LinkAdvertiseVals == {1, 33, 129, 257, 481}

\* 0x0000; 0x0041 full-10; 0x0081 half-100; 0x41E1 all of 10/100, acknowledged
LpaVals == {0, 65, 129, 16865}

\* 0x796D ESTATEN and ERCAP; 0x796C ESTATEN without ERCAP; 0x7869 ERCAP without ESTATEN
LinkBmsrVals == {31085, 31084, 30825}

\* 0x0000; 0x1000 T half; 0x2000 T full; 0x4000 X half; 0x8000 X full
EStatusVals == {0, 4096, 8192, 16384, 32768}

InitLink ==
    /\ \E s1000 \in Stat1000Vals, c1000 \in LinkCtrl1000Vals, adv \in LinkAdvertiseVals,
          lpa \in LpaVals, bmsr \in LinkBmsrVals, est \in EStatusVals :
           bus = BankBus((Mii_Stat1000 :> s1000) @@ (Mii_Ctrl1000 :> c1000)
                         @@ (Mii_Advertise :> adv) @@ (Mii_Lpa :> lpa)
                         @@ (Mii_Bmsr :> bmsr) @@ (Mii_EStatus :> est))
    /\ trace = <<>>
    /\ \E caps \in GigabitCaps : gp = [addr |-> PhyAddr, supported |-> caps]
    /\ conf = DefaultConf
    /\ pc = "ready"
    /\ calls = <<>>
    /\ polls = 0

SpecLink == InitLink /\ [][ParseLink]_vars

\* the value call c read from direct register r (the bank is not written meanwhile)
ValRead(c, r) == trace[CHOOSE k \in ReadsOf(c, r) : TRUE].val

GigabitAdvertised == gp.supported.base1000_t_half \/ gp.supported.base1000_t_full

\* the gigabit full / half bits common to the 1000BASE-T status register and
\* the control register aligned to it (control bits 9 / 8 under status bits 11 / 10)
GigabitFull(c) == Bit(ValRead(c, Mii_Stat1000), 11) /\ Bit(ValRead(c, Mii_Ctrl1000), 9)

GigabitHalf(c) == Bit(ValRead(c, Mii_Stat1000), 10) /\ Bit(ValRead(c, Mii_Ctrl1000), 8)

\* C5: with gigabit advertised and a gigabit bit common to the 1000BASE-T status
\* and the aligned control register, parse_link() returns (1000, Full) if the full
\* bit is common and (1000, Half) otherwise, and reads no other register.
C5_GigabitPrecedence ==
    \A i \in 1..Len(calls) :
        LET c == calls[i] IN
        (c.op = "parse_link" /\ GigabitAdvertised /\ (GigabitFull(c) \/ GigabitHalf(c)))
            => /\ c.ret = Link("S1000", IF GigabitFull(c) THEN "Full" ELSE "Half")
               /\ \A k \in c.first..c.last : trace[k].reg \in {Mii_Stat1000, Mii_Ctrl1000}

\* gigabit half wins although the 10/100 registers agree on full-100
C5_Witness ==
    /\ Returned("parse_link")
    /\ GigabitAdvertised /\ GigabitHalf(LastCall) /\ ~GigabitFull(LastCall)
    /\ BitAnd(RegOf(bus, PhyAddr, Mii_Advertise), RegOf(bus, PhyAddr, Mii_Lpa)) = 481
    /\ LastCall.ret = Link("S1000", "Half")

\* advertisement AND link partner ability, as call c read them
Common(c) == BitAnd(ValRead(c, Mii_Advertise), ValRead(c, Mii_Lpa))

\* the extended-status fallback applies to call c and finds a gigabit bit
FallbackMatches(c) ==
    /\ Bit(ValRead(c, Mii_Bmsr), 8) /\ ~Bit(ValRead(c, Mii_Bmsr), 0)
    /\ \E b \in 12..15 : Bit(ValRead(c, Mii_EStatus), b)

\* C6 as stated: with no gigabit flag in the Capability Set, full-100 common to
\* advertisement and partner gives (100, Full), half-100 alone gives (100, Half).
C6_TieBreak100 ==
    \A i \in 1..Len(calls) :
        LET c == calls[i] IN
        (c.op = "parse_link" /\ ~GigabitAdvertised)
            => /\ Bit(Common(c), 8) => c.ret = Link("S100", "Full")
               /\ (Bit(Common(c), 7) /\ ~Bit(Common(c), 8)) => c.ret = Link("S100", "Half")

\* C6 amended: the same, when the extended-status fallback does not match.
C6_TieBreak100NoFallback ==
    \A i \in 1..Len(calls) :
        LET c == calls[i] IN
        (c.op = "parse_link" /\ ~GigabitAdvertised /\ ~FallbackMatches(c))
            => /\ Bit(Common(c), 8) => c.ret = Link("S100", "Full")
               /\ (Bit(Common(c), 7) /\ ~Bit(Common(c), 8)) => c.ret = Link("S100", "Half")

C6_Witness ==
    /\ Returned("parse_link")
    /\ ~GigabitAdvertised /\ ~FallbackMatches(LastCall)
    /\ Bit(Common(LastCall), 7) /\ ~Bit(Common(LastCall), 8)
    /\ LastCall.ret = Link("S100", "Half")

---------------------------------------------------------------------------
(* Vendor scenario: a constructed engine and a DP83867 configuration       *)
(* record; the caller invokes config().                                    *)

AllCaps == CapsOf(CapNames)

\* the highest delay code (Ns4_00 = 0b1111); a record holds a code in 0..Ns4_00
Ns4_00 == 15

\* RX_DELAY_CTRL / TX_DELAY_CTRL: the delay of each 4-bit code, in quarter
\* nanoseconds (Ns0_25 = 0b0000 ... Ns4_00 = 0b1111), indexed by code + 1
DelayQuarterNs == <<1, 2, 3, 4, 5, 6, 7, 8, 9, 10, 11, 12, 13, 14, 15, 16>>

\* the selector of 2.00 ns (Ns2_00) and of a 4-byte FIFO (Bpn4)
Ns2_00 == 7
Bpn4 == 1

Interfaces == RgmiiModes \cup {"Sgmii", "Mii"}

\* every option of the record, at the delays of 2.00 ns
OptionConfs ==
    [rx_id_delay : {Ns2_00}, tx_id_delay : {Ns2_00}, fifo_depth : {Bpn4, 3},
     io_impedance : {None, 21}, rxctrl_strap_quirk : BOOLEAN, port_mirroring : PortMirroring,
     set_clk_output : BOOLEAN, clk_output_sel : {None, 12}, sgmii_ref_clk_en : BOOLEAN,
     interface : Interfaces]

\* every pair of delay selectors, on an RGMII-ID interface
DelayConfs ==
    [rx_id_delay : 0..Ns4_00, tx_id_delay : 0..Ns4_00, fifo_depth : {Bpn4},
     io_impedance : {None}, rxctrl_strap_quirk : {FALSE}, port_mirroring : {"KEEP"},
     set_clk_output : {FALSE}, clk_output_sel : {None}, sgmii_ref_clk_en : {FALSE},
     interface : {"RgmiiId"}]

\* a bus holding direct registers and extended registers of the PHY at PhyAddr
VendorBus(regs, exts) ==
    [BankBus(regs) EXCEPT
        !.ext = [k \in {<<PhyAddr, DP83867_DEVADDR, x>> : x \in DOMAIN exts} |-> exts[k[3]]]]

\* the vendor registers all hold `fill`; bmsr and strap as given; the
\* negotiation registers as a PHY out of reset holds them
VendorBank(fill, bmsr, strap) ==
    VendorBus((Mii_Bmcr :> 4416) @@ (Mii_Bmsr :> bmsr) @@ (Mii_Advertise :> 481)
              @@ (Mii_Ctrl1000 :> 768) @@ (Dp83867Reg_PhyCtrl :> fill)
              @@ (Dp83867Reg_Cfg2 :> fill) @@ (Dp83867Reg_Ctrl :> fill)
              @@ (Dp83867Reg_Biscr :> fill),
              (Dp83867Reg_Cfg4 :> fill) @@ (Dp83867Reg_RgmiiCtl :> fill)
              @@ (Dp83867Reg_StrapSts1 :> strap) @@ (Dp83867Reg_RgmiiDCtl :> fill)
              @@ (Dp83867Reg_IoMuxCfg :> fill) @@ (Dp83867Reg_SgmiiCtl :> fill))

\* 0x0000 and 0xFFFF
FillVals == {0, 65535}

\* 0x0000; 0x0800 the reserved strap bit
StrapVals == {0, 2048}

InitVendor ==
    /\ \E fill \in FillVals, bmsr \in BmsrGateVals, strap \in StrapVals :
           bus = VendorBank(fill, bmsr, strap)
    /\ trace = <<>>
    /\ gp = [addr |-> PhyAddr, supported |-> AllCaps]
    /\ conf \in OptionConfs \cup DelayConfs
    /\ pc = "ready"
    /\ calls = <<>>
    /\ polls = 0

SpecVendor == InitVendor /\ [][Config]_vars

\* the accesses of call c that data register 0x0E proxied to extended register x
ExtAccesses(c, x) ==
    {k \in c.first..c.last : trace[k].xdev = DP83867_DEVADDR /\ trace[k].xreg = x}

\* the writes of call c that latched x as the extended register to reach
ExtSelects(c, x) ==
    {k \in c.first..c.last :
        trace[k].op = "w" /\ trace[k].reg = Mii_MmdData /\ trace[k].xreg = NoExt /\ trace[k].val = x}

\* the value call c wrote to extended register x (written once)
ExtWritten(c, x) == trace[CHOOSE k \in ExtAccesses(c, x) : trace[k].op = "w"].val

\* the delay, in quarter nanoseconds, a 4-bit code stands for in the code table
DecodeDelay(code) == DelayQuarterNs[code + 1]

\* the record holds step q (in quarter nanoseconds) as the code the table names for it
HoldsStep(sel, q) == sel \in 0..Ns4_00 /\ DecodeDelay(sel) = q

\* the steps rx and tx of the record come back from the codes call c wrote
RoundTrip(c, q) ==
    /\ HoldsStep(conf.rx_id_delay, q) =>
          DecodeDelay(FieldGet(ExtWritten(c, Dp83867Reg_RgmiiDCtl), RgmiiDCtl_RX_DELAY_CTRL)) = q
    /\ HoldsStep(conf.tx_id_delay, q) =>
          DecodeDelay(FieldGet(ExtWritten(c, Dp83867Reg_RgmiiDCtl), RgmiiDCtl_TX_DELAY_CTRL)) = q

\* C7 as stated: each of the 17 delay steps 0.00 ns .. 4.00 ns (q quarter
\* nanoseconds, q in 0..16) has a 4-bit code in the table, and the code
\* configure() writes for a record holding the step decodes back to it.
C7_SeventeenSteps ==
    \A q \in 0..16 :
        /\ \E sel \in 0..Ns4_00 : HoldsStep(sel, q)
        /\ \A i \in 1..Len(calls) :
              (calls[i].op = "config" /\ is_rgmii(conf.interface)) => RoundTrip(calls[i], q)

\* C7 amended: the table has 16 steps, 0.25 .. 4.00 ns, and none for 0.00 ns.  For
\* each step q of the table, the record holding q's code, the code written into
\* the RX (TX) field is that code and decodes back to q.
C7_SixteenSteps ==
    \A q \in 1..16 :
        /\ \E sel \in 0..Ns4_00 : HoldsStep(sel, q)
        /\ \A i \in 1..Len(calls) :
              (calls[i].op = "config" /\ is_rgmii(conf.interface)) => RoundTrip(calls[i], q)

\* 4.00 ns on RX (code 15) and 0.25 ns on TX (code 0): 0x000F is written
C7_Witness ==
    /\ Returned("config")
    /\ is_rgmii(conf.interface)
    /\ conf.rx_id_delay = Ns4_00 /\ conf.tx_id_delay = 0
    /\ ExtWritten(LastCall, Dp83867Reg_RgmiiDCtl) = 15

\* C8 as stated: with the port-mirroring directive Keep, configure() neither
\* reads nor writes the mirroring register Cfg4.
C8_KeepNoAccess ==
    \A i \in 1..Len(calls) :
        LET c == calls[i] IN
        (c.op = "config" /\ conf.port_mirroring = "KEEP")
            => ExtAccesses(c, Dp83867Reg_Cfg4) = {} /\ ExtSelects(c, Dp83867Reg_Cfg4) = {}

\* C8 amended: with the directive Keep and the erratum-workaround flag clear,
\* configure() neither reads nor writes Cfg4; with the flag set its only accesses
\* to Cfg4 are the erratum step's one read and one write, and the write leaves
\* the mirror-enable bit as read.
C8_KeepNoAccessButErratum ==
    \A i \in 1..Len(calls) :
        LET c == calls[i]
            acc == ExtAccesses(c, Dp83867Reg_Cfg4)
        IN  (c.op = "config" /\ conf.port_mirroring = "KEEP")
            => IF conf.rxctrl_strap_quirk
               THEN /\ Cardinality(acc) = 2
                    /\ \E r, u \in acc :
                          /\ r < u /\ trace[r].op = "r" /\ trace[u].op = "w"
                          /\ Bit(trace[u].val, 0) = Bit(trace[r].val, 0)
               ELSE acc = {} /\ ExtSelects(c, Dp83867Reg_Cfg4) = {}

C8_Witness ==
    /\ Returned("config")
    /\ conf.port_mirroring = "KEEP" /\ ~conf.rxctrl_strap_quirk
    /\ is_rgmii(conf.interface)
    /\ LastCall.ret.kind = "Ok"
    /\ ExtAccesses(LastCall, Dp83867Reg_Cfg4) = {}
    /\ ExtAccesses(LastCall, Dp83867Reg_RgmiiCtl) # {}

---------------------------------------------------------------------------
(* End-to-end scenario: an RGMII-ID configuration (delays 2.00 ns, FIFO    *)
(* Bpn4, no impedance, mirroring Keep, no clock output); the caller        *)
(* invokes configure_phy() and startup() while the PHY negotiates.         *)

E2EConfs ==
    [rx_id_delay : {Ns2_00}, tx_id_delay : {Ns2_00}, fifo_depth : {Bpn4},
     io_impedance : {None}, rxctrl_strap_quirk : BOOLEAN, port_mirroring : {"KEEP"},
     set_clk_output : {FALSE}, clk_output_sel : {None}, sgmii_ref_clk_en : {FALSE},
     interface : {"RgmiiId"}]

\* what the registers the engine writes hold at first: [adv, c1000, fill]
\* 0x0001 / 0x0000 / 0x0000 and 0x0DE1 / 0x0300 / 0xFFFF
Presets == {[adv |-> 1, c1000 |-> 0, fill |-> 0], [adv |-> 3553, c1000 |-> 768, fill |-> 65535]}

\* 0x796D link up, negotiated; 0x786D the same without ESTATEN; 0x796C the same
\* without ERCAP; 0x7949 no link, negotiating; 0x7969 negotiated, link bit latched low
E2EBmsrVals == {31085, 30829, 31084, 31049, 31081}

\* 0x0000; 0x1000 T half; 0x2000 T full
E2EEStatusVals == {0, 4096, 8192}

E2ECaps == GigabitCaps \cup {AllCaps}

E2EBank(p, s1000, lpa, bmsr, est) ==
    VendorBus((Mii_Bmcr :> 4416) @@ (Mii_Bmsr :> bmsr) @@ (Mii_Advertise :> p.adv)
              @@ (Mii_Lpa :> lpa) @@ (Mii_Ctrl1000 :> p.c1000) @@ (Mii_Stat1000 :> s1000)
              @@ (Mii_EStatus :> est) @@ (Dp83867Reg_PhyCtrl :> p.fill)
              @@ (Dp83867Reg_Ctrl :> p.fill),
              (Dp83867Reg_Cfg4 :> p.fill) @@ (Dp83867Reg_RgmiiCtl :> p.fill)
              @@ (Dp83867Reg_StrapSts1 :> p.fill) @@ (Dp83867Reg_RgmiiDCtl :> p.fill))

InitE2E ==
    /\ \E p \in Presets, s1000 \in Stat1000Vals, lpa \in LpaVals, bmsr \in E2EBmsrVals,
          est \in E2EEStatusVals :
           bus = E2EBank(p, s1000, lpa, bmsr, est)
    /\ trace = <<>>
    /\ \E caps \in E2ECaps : gp = [addr |-> PhyAddr, supported |-> caps]
    /\ conf \in E2EConfs
    /\ pc = "ready"
    /\ calls = <<>>
    /\ polls = 0

NextE2E == ConfigurePhy \/ Startup \/ Poll \/ PhyNegotiates

SpecE2E == InitE2E /\ [][NextE2E]_vars

\* the link the status and partner registers and the Capability Set determine
ExpectedLink(stat, lpa, bmsr, est, caps) ==
    LET gfull == caps.base1000_t_full /\ Bit(stat, 11)
        ghalf == caps.base1000_t_half /\ Bit(stat, 10)
        f100 == caps.base100_t_full /\ Bit(lpa, 8)
        h100 == caps.base100_t_half /\ Bit(lpa, 7)
        f10 == (caps.base10_t_full \/ caps.base1000_x_half) /\ Bit(lpa, 6)
        low == IF f100 THEN Link("S100", "Full")
               ELSE IF h100 THEN Link("S100", "Half")
               ELSE IF f10 THEN Link("S10", "Full")
               ELSE Link("S10", "Half")
    IN  IF gfull THEN Link("S1000", "Full")
        ELSE IF ghalf THEN Link("S1000", "Half")
        ELSE IF Bit(bmsr, 8) /\ ~Bit(bmsr, 0) /\ (\E b \in 12..15 : Bit(est, b))
        THEN Link("S1000", IF Bit(est, 13) \/ Bit(est, 15) THEN "Full" ELSE low.duplex)
        ELSE low

ExpectedOnBus ==
    ExpectedLink(RegOf(bus, PhyAddr, Mii_Stat1000), RegOf(bus, PhyAddr, Mii_Lpa),
                 RegOf(bus, PhyAddr, Mii_Bmsr), RegOf(bus, PhyAddr, Mii_EStatus), gp.supported)

\* every status read of call c reports negotiation complete and link up
ReportsLinkUp(c) ==
    \A k \in ReadsOf(c, Mii_Bmsr) : Bit(trace[k].val, 5) /\ Bit(trace[k].val, 2)

\* C9 as stated: on a simulator that at once reports negotiation complete and
\* link up, configure_phy() with the RGMII-ID record succeeds and returns the
\* (Speed, Duplex) that the programmed registers determine.
C9_EndToEnd ==
    \A i \in 1..Len(calls) :
        LET c == calls[i] IN
        (c.op = "configure_phy" /\ ReportsLinkUp(c))
            => c.ret.kind = "Ok" /\ c.ret = ExpectedOnBus

\* C9 amended: the same on a simulator whose status register also has ESTATEN
\* set.  The pair returned is determined by the status, partner and extended
\* status registers and the Capability Set alone (ExpectedLink), whatever the
\* other registers held, so two runs on identical banks return the same pair.
C9_EndToEndWithEstaten ==
    \A i \in 1..Len(calls) :
        LET c == calls[i] IN
        (c.op = "configure_phy" /\ ReportsLinkUp(c)
            /\ \A k \in ReadsOf(c, Mii_Bmsr) : Bit(trace[k].val, 8))
            => /\ c.ret.kind = "Ok" /\ c.ret = ExpectedOnBus
               /\ Cardinality(ReadsOf(c, Mii_Bmsr)) \in {2, 3}

\* full-100 agreed with the partner, found although the advertisement register
\* held only the selector before configure()
C9_Witness ==
    /\ Len(calls) = 1 /\ Returned("configure_phy")
    /\ ReportsLinkUp(LastCall)
    /\ trace[CHOOSE k \in ReadsOf(LastCall, Mii_Advertise) : \A j \in ReadsOf(LastCall, Mii_Advertise) : k <= j].val = 1
    /\ ~GigabitAdvertised
    /\ LastCall.ret = Link("S100", "Full")

\* C10: when config_aneg() fails on the capability gate during configure(), the
\* error reaches the caller of configure_phy() as a typed error value, and no
\* (Speed, Duplex) is produced.
C10_ErrorPropagated ==
    \A i \in 1..Len(calls) :
        LET c == calls[i] IN
        (c.op = "configure_phy" /\ \E k \in ReadsOf(c, Mii_Bmsr) : ~Bit(trace[k].val, 8))
            => c.ret.kind = "Err"

\* what the code does instead: config() unwraps the error and panics
C10_ErrorPanics ==
    \A i \in 1..Len(calls) :
        LET c == calls[i] IN
        (c.op = "configure_phy" /\ \E k \in ReadsOf(c, Mii_Bmsr) : ~Bit(trace[k].val, 8))
            => c.ret = [kind |-> "Panic", msg |-> "Bad BMSR Setting"] /\ pc = "panicked"

---------------------------------------------------------------------------
(* Negotiation restart policy                                              *)

\* the writes of call c to register r
WritesOf(c, r) == {i \in Writes(c) : trace[i].reg = r}

\* the value call c read first from register r
FirstRead(c, r) == trace[CHOOSE k \in ReadsOf(c, r) : \A j \in ReadsOf(c, r) : k <= j].val

\* config_advert() reported a change within call c: it wrote the advertisement
\* or the 1000BASE-T control register
AdvertChanged(c) == WritesOf(c, Mii_Advertise) \cup WritesOf(c, Mii_Ctrl1000) # {}

\* a restart is warranted in call c: the advertisement changed, or the control
\* register read has ISOLATE (bit 10) set or ANENABLE (bit 12) clear
RestartWarranted(c) ==
    \/ AdvertChanged(c)
    \/ Bit(FirstRead(c, Mii_Bmcr), 10)
    \/ ~Bit(FirstRead(c, Mii_Bmcr), 12)

\* C11: a successful config_aneg() writes the control register (BMCR), once,
\* if and only if config_advert() reported a change or the control register
\* read has ISOLATE set or ANENABLE clear; otherwise it issues no write at all.
C11_RestartPolicy ==
    \A i \in 1..Len(calls) :
        (calls[i].op = "config_aneg" /\ calls[i].ret.kind = "Ok")
            => /\ (WritesOf(calls[i], Mii_Bmcr) # {}) <=> RestartWarranted(calls[i])
               /\ Cardinality(WritesOf(calls[i], Mii_Bmcr)) <= 1
               /\ ~RestartWarranted(calls[i]) => Writes(calls[i]) = {}

\* nothing changed and ISOLATE is clear, but negotiation was off: restarted
C11_Witness ==
    /\ Returned("config_aneg")
    /\ LastCall.ret.kind = "Ok"
    /\ ~AdvertChanged(LastCall)
    /\ FirstRead(LastCall, Mii_Bmcr) = 320
    /\ Cardinality(WritesOf(LastCall, Mii_Bmcr)) = 1

---------------------------------------------------------------------------
(* Phase ordering of bring-up                                              *)

\* the registers parse_link() reads
ParseLinkRegs == {Mii_Stat1000, Mii_Ctrl1000, Mii_Advertise, Mii_Lpa, Mii_Bmsr, Mii_EStatus}

\* the last access of configure() in call c.  configure() is the only phase that
\* writes or touches the control register (BMCR), and its final config_aneg()
\* ends on the restart write, or on the BMCR read when no restart is due.
\* startup() called alone has no configure() phase.
ConfigLast(c) ==
    IF c.op = "configure_phy"
    THEN CHOOSE k \in c.first..c.last :
             /\ trace[k].op = "w" \/ trace[k].reg = Mii_Bmcr
             /\ \A j \in (k + 1)..c.last : trace[j].op = "r" /\ trace[j].reg # Mii_Bmcr
    ELSE c.first - 1

IsStatusRead(k) == trace[k].op = "r" /\ trace[k].reg = Mii_Bmsr

\* accesses s..last of call c are update_link()'s status reads, all of them,
\* followed by parse_link()'s reads, starting at p
StartupPhases(c, s, p) ==
    /\ \A k \in s..(p - 1) : IsStatusRead(k)
    /\ trace[p].reg \in {Mii_Stat1000, Mii_Advertise}
    /\ \A k \in p..c.last : trace[k].op = "r" /\ trace[k].reg \in ParseLinkRegs
    /\ Cardinality({k \in p..c.last : IsStatusRead(k)}) <= 1

\* C12: in a configure_phy() that returns, configure() opens the call and all of
\* its accesses (writes, vendor registers, config_aneg) come before the first
\* status read of startup(); in startup(), the status reads of update_link()
\* all come before the first register read of parse_link().
C12_PhaseOrder ==
    \A i \in 1..Len(calls) :
        LET c == calls[i] IN
        (c.op \in {"configure_phy", "startup"} /\ c.ret.kind = "Ok")
            => /\ c.op = "configure_phy" => trace[c.first].reg = Dp83867Reg_Ctrl
               /\ ConfigLast(c) < c.last
               /\ IsStatusRead(ConfigLast(c) + 1)
               /\ \E p \in (ConfigLast(c) + 2)..c.last : StartupPhases(c, ConfigLast(c) + 1, p)

\* the wait loop ran (two or more update_link reads after configure()'s own
\* status read) and parse_link() went on to the 10/100 registers
C12_Witness ==
    /\ Returned("configure_phy")
    /\ LastCall.ret.kind = "Ok"
    /\ Cardinality(ReadsOf(LastCall, Mii_Bmsr)) >= 4
    /\ ReadsOf(LastCall, Mii_Lpa) # {}
    /\ \E p \in (ConfigLast(LastCall) + 3)..LastCall.last :
           StartupPhases(LastCall, ConfigLast(LastCall) + 1, p)

---------------------------------------------------------------------------
(* Step order of configure()                                               *)

IsExtWrite(a) == a.op = "w" /\ a.xreg # NoExt

\* the extended registers call c wrote, in the order it wrote them
ExtWriteOrder(c) ==
    LET s == SelectSeq(SubSeq(trace, c.first, c.last), IsExtWrite)
    IN  [i \in 1..Len(s) |-> s[i].xreg]

\* the extended registers the steps of configure() write for record cf, in the
\* order erratum, interface mode, impedance, port mirroring, clock output
StepOrder(cf) ==
    (IF cf.rxctrl_strap_quirk THEN <<Dp83867Reg_Cfg4>> ELSE <<>>)
    \o (IF is_rgmii(cf.interface) THEN <<Dp83867Reg_RgmiiCtl, Dp83867Reg_RgmiiDCtl>>
        ELSE IF cf.interface = "Sgmii"
        THEN (IF cf.sgmii_ref_clk_en THEN <<Dp83867Reg_SgmiiCtl>> ELSE <<>>)
             \o <<Dp83867Reg_RgmiiCtl>>
        ELSE <<>>)
    \o (IF cf.io_impedance # None THEN <<Dp83867Reg_IoMuxCfg>> ELSE <<>>)
    \o (IF cf.port_mirroring # "KEEP" THEN <<Dp83867Reg_Cfg4>> ELSE <<>>)
    \o (IF cf.set_clk_output THEN <<Dp83867Reg_IoMuxCfg>> ELSE <<>>)

\* the registers config_aneg() accesses
AnegRegs == {Mii_Advertise, Mii_Bmsr, Mii_Ctrl1000, Mii_Bmcr}

\* a vendor register access: a direct register 0x10..0x1F, or the MMD pair
IsVendorAccess(a) == a.reg \in 16..31 \cup {Mii_MmdCtrl, Mii_MmdData}

\* config_aneg() starts at access a of call c: from a on only its registers are
\* accessed, and no vendor register any more
AnegFrom(c, a) ==
    /\ trace[a].op = "r" /\ trace[a].reg = Mii_Advertise
    /\ \A k \in a..c.last : trace[k].reg \in AnegRegs /\ ~IsVendorAccess(trace[k])
    /\ \A k \in c.first..(a - 1) : trace[k].reg \notin {Mii_Advertise, Mii_Ctrl1000, Mii_Bmsr}

\* C13: configure() first reads the vendor control register (0x1F) and writes
\* it back with the software-restart bit (14) set, its first write; the steps
\* then run in the order erratum, interface mode, impedance, port mirroring,
\* clock output; config_aneg()'s accesses all follow the last vendor access.
C13_StepOrder ==
    \A i \in 1..Len(calls) :
        LET c == calls[i] IN
        c.op = "config"
            => /\ trace[c.first].op = "r" /\ trace[c.first].reg = Dp83867Reg_Ctrl
               /\ \A k \in Writes(c) : k >= c.first + 1
               /\ trace[c.first + 1].op = "w" /\ trace[c.first + 1].reg = Dp83867Reg_Ctrl
               /\ Bit(trace[c.first + 1].val, 14)
               /\ ExtWriteOrder(c) = StepOrder(conf)
               /\ \E a \in c.first..c.last : AnegFrom(c, a)

\* every step acts: erratum, SGMII with reference clock, impedance, mirroring
\* and clock output, then the negotiation restart
C13_Witness ==
    /\ Returned("config")
    /\ LastCall.ret.kind = "Ok"
    /\ ExtWriteOrder(LastCall) =
           <<Dp83867Reg_Cfg4, Dp83867Reg_SgmiiCtl, Dp83867Reg_RgmiiCtl,
             Dp83867Reg_IoMuxCfg, Dp83867Reg_Cfg4, Dp83867Reg_IoMuxCfg>>
    /\ trace[LastCall.last].op = "w" /\ trace[LastCall.last].reg = Mii_Bmcr

---------------------------------------------------------------------------
(* Detection: which address is chosen                                      *)

\* the highest address of a non-empty set
Highest(S) == CHOOSE a \in S : \A b \in S : b <= a

\* C14: with an address valid iff its detect register is not 0xFFFF and has the
\* bits of 0x1808 set, new() chooses the requested address when it is valid,
\* even below other valid addresses, and otherwise the highest valid address.
C14_DetectTieBreak ==
    (Returned("new") /\ ValidAddrs(bus) # {})
        => /\ LastCall.ret.kind = "Ok"
           /\ gp.addr = IF Requested \in ValidAddrs(bus) THEN Requested
                        ELSE Highest(ValidAddrs(bus))

\* two PHYs answer and the requested address does not: the scan from 31 down
\* stops at the higher one
C14_Witness ==
    /\ Returned("new")
    /\ ValidAddrs(bus) = {5, 17}
    /\ Requested = 3
    /\ gp.addr = 17
    /\ LastCall.last - LastCall.first + 1 = 1 + (NumPhyAddrs - 17)

---------------------------------------------------------------------------
(* Detection with any caller-supplied address.  An MDIO frame carries five *)
(* address bits, so a transport puts the address modulo 32 on the wire: an *)
(* address of 32 or more is answered by the PHY at its low five bits.      *)

\* the addresses a caller supplies: one wrap of the five-bit address space
WideAddrs == 0..(2 * NumPhyAddrs - 1)

WideBus(present, up, idle) ==
    [EmptyBus EXCEPT !.reg = [k \in {<<a, PhyReg_DetectReg>> : a \in WideAddrs} |->
                                 IF (k[1] % NumPhyAddrs) \in present THEN up ELSE idle]]

InitDetectWide ==
    /\ \E present \in AddrSets(MaxPhys), up \in DetectValid, idle \in DetectIdle :
           bus = WideBus(present, up, idle)
    /\ trace = <<>>
    /\ \E addr \in WideAddrs : gp = [addr |-> addr, supported |-> NoCaps]
    /\ conf = DefaultConf
    /\ pc = "new"
    /\ calls = <<>>
    /\ polls = 0

SpecDetectWide == InitDetectWide /\ [][New]_vars

\* C15: after a successful new(), whatever address the caller supplied, the
\* address the engine holds is in 0..31.
C15_AddressInRange ==
    (Returned("new") /\ LastCall.ret.kind = "Ok") => gp.addr \in 0..(NumPhyAddrs - 1)

\* what the code does instead: a supplied address that answers is kept as it is,
\* in range or not; only the scan yields an address in 0..31
C15_AddressKeptOrScanned ==
    (Returned("new") /\ LastCall.ret.kind = "Ok")
        => \/ gp.addr = Requested /\ LastCall.last = LastCall.first
           \/ gp.addr \in 0..(NumPhyAddrs - 1) /\ LastCall.last > LastCall.first

---------------------------------------------------------------------------
(* Indirect access scenario: a constructed engine on a PHY that implements *)
(* the MMD access registers; the caller invokes read_mmd() and write_mmd() *)
(* on device addresses and extended register numbers, MaxCalls times.      *)

\* device addresses: 1, 7 and the vendor's 0x1F
MmdDevs == {1, 7, DP83867_DEVADDR}

\* extended register numbers: Cfg4, RgmiiDCtl, IoMuxCfg
MmdRegs == {Dp83867Reg_Cfg4, Dp83867Reg_RgmiiDCtl, Dp83867Reg_IoMuxCfg}

\* data: 0x0000, 0x1234, 0xFFFF
MmdVals == {0, 4660, 65535}

\* every extended register of the PHY holds fill
MmdBus(fill) ==
    [EmptyBus EXCEPT
        !.ext = [k \in {<<PhyAddr, d, x>> : d \in MmdDevs, x \in MmdRegs} |-> fill]]

InitMmd ==
    /\ \E fill \in FillVals : bus = MmdBus(fill)
    /\ trace = <<>>
    /\ gp = [addr |-> PhyAddr, supported |-> NoCaps]
    /\ conf = DefaultConf
    /\ pc = "ready"
    /\ calls = <<>>
    /\ polls = 0

\* the caller invokes read_mmd(dev, reg)
ReadMmd ==
    /\ pc = "ready"
    /\ Len(calls) < MaxCalls
    /\ \E dev \in MmdDevs, reg \in MmdRegs :
           \E w1 \in {read_mmd(World, gp, dev, reg)} :
               Return("read_mmd",
                      [w |-> w1, ret |-> [kind |-> "Ok", dev |-> dev, reg |-> reg, val |-> LastVal(w1)]])
    /\ UNCHANGED <<gp, conf, polls>>

\* the caller invokes write_mmd(dev, reg, v)
WriteMmd ==
    /\ pc = "ready"
    /\ Len(calls) < MaxCalls
    /\ \E dev \in MmdDevs, reg \in MmdRegs, v \in MmdVals :
           \E w1 \in {write_mmd(World, gp, dev, reg, v)} :
               Return("write_mmd",
                      [w |-> w1, ret |-> [kind |-> "Ok", dev |-> dev, reg |-> reg, val |-> v]])
    /\ UNCHANGED <<gp, conf, polls>>

NextMmd == ReadMmd \/ WriteMmd

SpecMmd == InitMmd /\ [][NextMmd]_vars

\* access k is op on direct register r of the engine's PHY, carrying v
IsAccess(k, op, r, v) ==
    /\ trace[k].op = op /\ trace[k].phy = gp.addr
    /\ trace[k].reg = r /\ trace[k].val = v

\* accesses k, k+1, k+2 are the setup for (dev, reg): the device address, the
\* register number, the device address with the no-post-increment flag 0x4000
IsSetup(k, dev, reg) ==
    /\ IsAccess(k, "w", Mii_MmdCtrl, dev)
    /\ IsAccess(k + 1, "w", Mii_MmdData, reg)
    /\ IsAccess(k + 2, "w", Mii_MmdCtrl, dev + 16384)

\* C16: read_mmd(dev, reg) issues exactly the three setup writes and then one
\* read of MMD-data; write_mmd(dev, reg, v) issues exactly the three setup
\* writes and then one write of v to MMD-data; nothing else, nothing twice.
C16_MmdProtocol ==
    \A i \in 1..Len(calls) :
        LET c == calls[i] IN
        c.op \in {"read_mmd", "write_mmd"}
            => /\ c.last = c.first + 3
               /\ IsSetup(c.first, c.ret.dev, c.ret.reg)
               /\ c.op = "read_mmd" =>
                      trace[c.last].op = "r" /\ trace[c.last].reg = Mii_MmdData
                      /\ trace[c.last].phy = gp.addr
               /\ c.op = "write_mmd" => IsAccess(c.last, "w", Mii_MmdData, c.ret.val)

\* a read of IoMuxCfg (0x170) at device 0x1F after a write elsewhere: the
\* setup is issued again in full
C16_Witness ==
    /\ Len(calls) = 2
    /\ calls[1].op = "write_mmd" /\ calls[2].op = "read_mmd"
    /\ calls[2].ret.dev = DP83867_DEVADDR /\ calls[2].ret.reg = Dp83867Reg_IoMuxCfg
    /\ calls[1].ret.reg = Dp83867Reg_Cfg4
    /\ IsSetup(5, DP83867_DEVADDR, Dp83867Reg_IoMuxCfg)
    /\ Len(trace) = 8

\* the extended register keys of either bus
ExtKeys == DOMAIN bus.ext \cup DOMAIN bus'.ext

\* the step a write_mmd(dev, reg, v) call takes: extended register (dev, reg)
\* of the PHY holds v afterwards, every other one what it held
WriteMmdFrame(c) ==
    /\ DOMAIN bus'.ext = DOMAIN bus.ext \cup {<<gp.addr, c.ret.dev, c.ret.reg>>}
    /\ \A k \in ExtKeys :
           bus'.ext[k] = IF k = <<gp.addr, c.ret.dev, c.ret.reg>> THEN c.ret.val
                         ELSE bus.ext[k]

\* the step a read_mmd(dev, reg) call takes: no extended register changes, and
\* right after a write_mmd(dev, reg, v) the value returned is v
ReadMmdBack(c) ==
    /\ bus'.ext = bus.ext
    /\ (/\ calls # <<>>
        /\ calls[Len(calls)].op = "write_mmd"
        /\ calls[Len(calls)].ret.dev = c.ret.dev
        /\ calls[Len(calls)].ret.reg = c.ret.reg)
           => c.ret.val = calls[Len(calls)].ret.val

MmdRoundTripStep ==
    Len(calls') = Len(calls) + 1
        => /\ calls'[Len(calls')].op = "write_mmd" => WriteMmdFrame(calls'[Len(calls')])
           /\ calls'[Len(calls')].op = "read_mmd" => ReadMmdBack(calls'[Len(calls')])

\* C17: on a PHY that implements indirect access, write_mmd(dev, reg, v) changes
\* extended register (dev, reg) to v and no other extended register, and a
\* read_mmd(dev, reg) that follows returns v and changes none.
C17_MmdRoundTrip == [][MmdRoundTripStep]_vars

\* 0x1234 written to RgmiiDCtl at device 7 and read back, on a bank of 0xFFFF
C17_Witness ==
    /\ Len(calls) = 2
    /\ calls[1].op = "write_mmd" /\ calls[2].op = "read_mmd"
    /\ calls[1].ret = [kind |-> "Ok", dev |-> 7, reg |-> Dp83867Reg_RgmiiDCtl, val |-> 4660]
    /\ calls[2].ret = calls[1].ret
    /\ ExtOf(bus, PhyAddr, DP83867_DEVADDR, Dp83867Reg_RgmiiDCtl) = 65535

---------------------------------------------------------------------------
(* Bring-up scenario: a constructed engine and a vendor engine with any    *)
(* option of the record; the caller invokes config(), startup() and        *)
(* configure_phy(), MaxCalls times in all, while the PHY negotiates.       *)

\* every option of the record, at one FIFO depth and clock selection
BringUpConfs == {cf \in OptionConfs : cf.fifo_depth = Bpn4 /\ cf.clk_output_sel = 12}

\* 0x796D link up, negotiated; 0x7949 no link, negotiating; 0x786D without ESTATEN
BringUpBmsrVals == {31085, 31049, 30829}

InitBringUp ==
    /\ \E bmsr \in BringUpBmsrVals, strap \in StrapVals : bus = VendorBank(65535, bmsr, strap)
    /\ trace = <<>>
    /\ gp = [addr |-> PhyAddr, supported |-> AllCaps]
    /\ conf \in BringUpConfs
    /\ pc = "ready"
    /\ calls = <<>>
    /\ polls = 0

NextBringUp == Config \/ Startup \/ ConfigurePhy \/ Poll \/ PhyNegotiates

SpecBringUp == InitBringUp /\ [][NextBringUp]_vars

\* the MMD-extended vendor registers
ExtendedRegs ==
    {Dp83867Reg_Cfg4, Dp83867Reg_RgmiiCtl, Dp83867Reg_StrapSts1, Dp83867Reg_RgmiiDCtl,
     Dp83867Reg_SgmiiCtl, Dp83867Reg_IoMuxCfg}

\* access a stays within the address spaces: a direct register number of five
\* bits; the MMD control register only written, with device address 0x1F; an
\* extended register only one of the vendor's, at device 0x1F, reached through
\* the data register after its number was latched there
InAddressSpace(a) ==
    /\ a.reg \in 0..31
    /\ a.reg = Mii_MmdCtrl => a.op = "w" /\ a.val \in {DP83867_DEVADDR, DP83867_DEVADDR + 16384}
    /\ a.xreg # NoExt => a.reg = Mii_MmdData /\ a.xdev = DP83867_DEVADDR /\ a.xreg \in ExtendedRegs
    /\ (a.reg = Mii_MmdData /\ a.xreg = NoExt) => a.op = "w" /\ a.val \in ExtendedRegs

\* C18: in every run of configure() and startup(), each bus access carries a
\* register number in 0x00..0x1F, and the MMD-extended vendor registers are
\* reached only through the indirect protocol at device address 0x1F.
C18_AddressSpace == \A k \in 1..Len(trace) : InAddressSpace(trace[k])

\* a configure_phy() that wrote SgmiiCtl (0xD3) and IoMuxCfg (0x170) through
\* the data register and went on to read the link registers
C18_Witness ==
    /\ Returned("configure_phy")
    /\ LastCall.ret.kind = "Ok"
    /\ \E k \in Writes(LastCall) : trace[k].xreg = Dp83867Reg_SgmiiCtl
    /\ \E k \in Writes(LastCall) : trace[k].xreg = Dp83867Reg_IoMuxCfg
    /\ \E k \in Writes(LastCall) : trace[k].reg = Mii_MmdData /\ trace[k].val = Dp83867Reg_IoMuxCfg
    /\ ReadsOf(LastCall, Mii_Stat1000) # {}

---------------------------------------------------------------------------
(* Content of the restart write                                            *)

\* v is u with ANENABLE (bit 12) and ANRESTART (bit 9) set, ISOLATE (bit 10)
\* cleared, and every other bit as in u
IsRestartOf(v, u) ==
    \A b \in 0..15 :
        Bit(v, b) = IF b \in {9, 12} THEN TRUE ELSE IF b = 10 THEN FALSE ELSE Bit(u, b)

\* C19: the restart write of config_aneg() follows a read of the control
\* register (BMCR) at once, and writes the value read with ANENABLE and
\* ANRESTART set, ISOLATE cleared and all other bits unchanged.
C19_RestartContent ==
    \A i \in 1..Len(calls) :
        calls[i].op = "config_aneg"
            => \A k \in WritesOf(calls[i], Mii_Bmcr) :
                   /\ k > calls[i].first
                   /\ trace[k - 1].op = "r" /\ trace[k - 1].reg = Mii_Bmcr
                   /\ trace[k].val \in 0..(U16 - 1)
                   /\ IsRestartOf(trace[k].val, trace[k - 1].val)

\* 0x1540 (enabled, isolated, full duplex, 1000) read, 0x1340 written
C19_Witness ==
    /\ Returned("config_aneg")
    /\ \E k \in WritesOf(LastCall, Mii_Bmcr) : trace[k - 1].val = 5440 /\ trace[k].val = 4928

---------------------------------------------------------------------------
(* Read counts of update_link()                                            *)

\* how many status reads in a row call c issues from access s on: the reads
\* of update_link(), which parse_link() follows with another register
StatusReadsFrom(c, s) ==
    CHOOSE n \in 0..(c.last - s + 1) :
        /\ \A k \in s..(s + n - 1) : IsStatusRead(k)
        /\ s + n <= c.last => ~IsStatusRead(s + n)

\* C20: when update_link()'s first status read has LSTATUS (bit 2) set, it is
\* its only read; when it has LSTATUS clear and ANEGCOMPLETE (bit 5) set,
\* update_link() reads the status register once more and returns.
C20_UpdateLinkReads ==
    \A i \in 1..Len(calls) :
        LET c == calls[i] IN
        (c.op \in {"startup", "configure_phy"} /\ c.ret.kind = "Ok")
            => /\ Bit(trace[ConfigLast(c) + 1].val, 2)
                      => StatusReadsFrom(c, ConfigLast(c) + 1) = 1
               /\ (~Bit(trace[ConfigLast(c) + 1].val, 2) /\ Bit(trace[ConfigLast(c) + 1].val, 5))
                      => StatusReadsFrom(c, ConfigLast(c) + 1) = 2

\* 0x7969: negotiation complete, the link bit latched low; read twice
C20_Witness ==
    /\ Returned("startup")
    /\ LastCall.ret.kind = "Ok"
    /\ trace[LastCall.first].val = 31081
    /\ StatusReadsFrom(LastCall, LastCall.first) = 2

---------------------------------------------------------------------------
(* Wait scenario: the link is down and negotiation has not completed when  *)
(* the caller invokes startup() or configure_phy(); while the engine polls *)
(* the link may come up and the negotiation may complete, in any order.    *)

\* 0x7949 and 0x7849 (without ESTATEN): no link, negotiating
WaitBmsrVals == {31049, 30793}

InitWait ==
    /\ \E p \in Presets, s1000 \in {0, 2048}, lpa \in LpaVals, bmsr \in WaitBmsrVals :
           bus = E2EBank(p, s1000, lpa, bmsr, 0)
    /\ trace = <<>>
    /\ \E caps \in E2ECaps : gp = [addr |-> PhyAddr, supported |-> caps]
    /\ conf \in E2EConfs
    /\ pc = "ready"
    /\ calls = <<>>
    /\ polls = 0

\* the PHY, while the engine waits: the link comes up, negotiation still running
PhyLinksUp ==
    /\ pc \in {"startup", "configure_phy"}
    /\ ~RegIsSet(RegOf(bus, gp.addr, Mii_Bmsr), SET(Bmsr_LSTATUS))
    /\ ~RegIsSet(RegOf(bus, gp.addr, Mii_Bmsr), SET(Bmsr_ANEGCOMPLETE))
    /\ bus' = [bus EXCEPT !.reg[<<gp.addr, Mii_Bmsr>>] = BitOr(@, SET(Bmsr_LSTATUS).value)]
    /\ UNCHANGED <<trace, gp, conf, pc, calls, polls>>

NextWait == ConfigurePhy \/ Startup \/ Poll \/ PhyNegotiates \/ PhyLinksUp

SpecWait == InitWait /\ [][NextWait]_vars

\* the wait loop can iterate: Poll's guard, the condition that enables it
PollEnabled == pc \in {"startup", "configure_phy"} /\ polls < MaxPolls

\* the wait loop is a spin loop of the running caller, it keeps iterating:
\* weak fairness of Poll, WF_vars(Poll), written out with Poll's guard
SpecWaitFair == SpecWait /\ ([]<>(~PollEnabled) \/ []<><<Poll>>_vars)

\* startup() or configure_phy() is inside update_link()'s wait loop
Waiting == pc \in {"startup", "configure_phy"}

\* a status read has returned a value with ANEGCOMPLETE (bit 5) set
Reported == \E k \in 1..Len(trace) : IsStatusRead(k) /\ Bit(trace[k].val, 5)

\* C21: once update_link() is in its wait loop (first status read with
\* LSTATUS and ANEGCOMPLETE clear), if no status read ever returns
\* ANEGCOMPLETE then the call never returns, whatever LSTATUS becomes.
C21_UnboundedWait == []((Waiting /\ []~Reported) => []Waiting)

\* still waiting after MaxPolls polls, the last of which showed the link up
C21_Witness ==
    /\ Waiting
    /\ polls = MaxPolls
    /\ IsStatusRead(Len(trace))
    /\ Bit(trace[Len(trace)].val, 2)
    /\ ~Bit(trace[Len(trace)].val, 5)

---------------------------------------------------------------------------
(* Termination of the wait                                                 *)

\* the status register on the bus has ANEGCOMPLETE set
BusNegotiated == Bit(RegOf(bus, gp.addr, Mii_Bmsr), 5)

\* a returned call that had to wait: of update_link()'s status reads only
\* the last one has ANEGCOMPLETE set
WaitEndsAtFirstReport ==
    \A i \in 1..Len(calls) :
        LET c == calls[i]
            s == ConfigLast(c) + 1
        IN  (/\ c.op \in {"startup", "configure_phy"}
             /\ c.ret.kind = "Ok"
             /\ ~Bit(trace[s].val, 2)
             /\ ~Bit(trace[s].val, 5))
                => /\ StatusReadsFrom(c, s) >= 2
                   /\ \A k \in s..(s + StatusReadsFrom(c, s) - 2) : ~Bit(trace[k].val, 5)
                   /\ Bit(trace[s + StatusReadsFrom(c, s) - 1].val, 5)

\* C22: once the PHY reports ANEGCOMPLETE, a waiting update_link() returns
\* (within the MaxPolls iterations followed), and a call that waited returns
\* right after the first polled status read with ANEGCOMPLETE set.
C22_WaitTerminates ==
    /\ []WaitEndsAtFirstReport
    /\ (PollEnabled /\ BusNegotiated) ~> ~Waiting

\* startup() returned after two polls, the second of which reported
C22_Witness ==
    /\ Returned("startup")
    /\ LastCall.ret.kind = "Ok"
    /\ ~Bit(trace[LastCall.first].val, 5)
    /\ ~Bit(trace[LastCall.first].val, 2)
    /\ StatusReadsFrom(LastCall, LastCall.first) = 3
    /\ Bit(trace[LastCall.first + 2].val, 5)

---------------------------------------------------------------------------
(* Gigabit intersection arithmetic                                         *)

\* bit b of status AND (control * 4 mod 2^16)
AlignedCommon(status, control, b) == Bit(status, b) /\ Bit((control * 4) % 65536, b)

\* parse_link() call c returned from its gigabit check: it read the
\* 1000BASE-T status and control registers and nothing else
ResolvedInStep1(c) ==
    /\ c.last = c.first + 1
    /\ trace[c.first].reg = Mii_Stat1000 /\ trace[c.first].op = "r"
    /\ trace[c.last].reg = Mii_Ctrl1000 /\ trace[c.last].op = "r"

\* C23: with a gigabit flag in the Capability Set, parse_link() resolves
\* Speed=1000 in its gigabit check iff bit 10 or bit 11 is set in the status
\* value ANDed with the control value shifted left by 2 within 16 bits, which is
\* (status bit 10 and control bit 8) or (status bit 11 and control bit 9); the
\* duplex is Full iff bit 11 is (status bit 11 and control bit 9).
C23_GigabitArithmetic ==
    \A i \in 1..Len(calls) :
        LET c == calls[i]
            s == trace[c.first].val
            k == trace[c.first + 1].val
        IN  (c.op = "parse_link" /\ GigabitAdvertised)
            => /\ trace[c.first].reg = Mii_Stat1000 /\ trace[c.first + 1].reg = Mii_Ctrl1000
               /\ ResolvedInStep1(c) <=> (AlignedCommon(s, k, 10) \/ AlignedCommon(s, k, 11))
               /\ AlignedCommon(s, k, 10) <=> (Bit(s, 10) /\ Bit(k, 8))
               /\ AlignedCommon(s, k, 11) <=> (Bit(s, 11) /\ Bit(k, 9))
               /\ ResolvedInStep1(c)
                      => /\ c.ret.speed = "S1000"
                         /\ c.ret.duplex = "Full" <=> (Bit(s, 11) /\ Bit(k, 9))
                         /\ c.ret.duplex \in {"Full", "Half"}

\* control 0x4300 (bit 14 leaves the 16 bits) against status 0x0400: (1000, Half)
C23_Witness ==
    /\ Returned("parse_link")
    /\ GigabitAdvertised
    /\ ResolvedInStep1(LastCall)
    /\ trace[LastCall.first].val = 1024
    /\ trace[LastCall.last].val = 17152
    /\ LastCall.ret = Link("S1000", "Half")

---------------------------------------------------------------------------
(* Extended-status fallback                                                *)

\* C24 as stated: when the fallback applies (ESTATEN set, ERCAP clear) and one
\* of the four 1000BASE-T/X bits of the extended status is set, parse_link()
\* returns Speed=1000, with Duplex=Full iff TFULL1000 (bit 13) or XFULL1000
\* (bit 15) is set, whatever the advertisement and partner registers hold.
C24_FallbackDuplex ==
    \A i \in 1..Len(calls) :
        LET c == calls[i] IN
        (c.op = "parse_link" /\ ReadsOf(c, Mii_EStatus) # {} /\ FallbackMatches(c))
            => /\ c.ret.speed = "S1000"
               /\ c.ret.duplex = "Full"
                      <=> (Bit(ValRead(c, Mii_EStatus), 13) \/ Bit(ValRead(c, Mii_EStatus), 15))

\* what parse_link() does: without a full-duplex bit in the extended status the
\* duplex is the one the 10/100 resolution left (Full when a full bit is common)
C24_FallbackDuplexCarried ==
    \A i \in 1..Len(calls) :
        LET c == calls[i] IN
        (c.op = "parse_link" /\ ReadsOf(c, Mii_EStatus) # {} /\ FallbackMatches(c))
            => /\ c.ret.speed = "S1000"
               /\ c.ret.duplex = "Full"
                      <=> \/ Bit(ValRead(c, Mii_EStatus), 13) \/ Bit(ValRead(c, Mii_EStatus), 15)
                          \/ Bit(Common(c), 8)
                          \/ (~Bit(Common(c), 7) /\ Bit(Common(c), 6))

---------------------------------------------------------------------------
(* Default resolution                                                      *)

\* parse_link() call c found a gigabit bit common to the 1000BASE-T registers
GigabitCommon(c) == GigabitAdvertised /\ (GigabitFull(c) \/ GigabitHalf(c))

\* C25: when parse_link() finds no gigabit intersection, neither 100 Mbps bit
\* (bits 7, 8) in advertisement AND partner, and the extended-status fallback
\* does not match, it returns (10, Full) if the full-10 bit (bit 6) is in the
\* intersection and (10, Half) otherwise.
C25_DefaultResolution ==
    \A i \in 1..Len(calls) :
        LET c == calls[i] IN
        (/\ c.op = "parse_link"
         /\ ~GigabitCommon(c)
         /\ ~Bit(Common(c), 7) /\ ~Bit(Common(c), 8)
         /\ ~FallbackMatches(c))
            => c.ret = Link("S10", IF Bit(Common(c), 6) THEN "Full" ELSE "Half")

\* advertisement 0x01E1 and partner 0x0041: full-10 is all they share
C25_Witness ==
    /\ Returned("parse_link")
    /\ ~GigabitCommon(LastCall)
    /\ Common(LastCall) = 65
    /\ ~FallbackMatches(LastCall)
    /\ LastCall.ret = Link("S10", "Full")

---------------------------------------------------------------------------
(* Write-only-if-changed                                                   *)

\* the advertisement bits config_advert() composes from the Capability Set
AdvertFlags(caps) ==
    (5 :> (caps.base10_t_half \/ caps.base1000_x_full))
    @@ (6 :> (caps.base10_t_full \/ caps.base1000_x_half))
    @@ (7 :> caps.base100_t_half) @@ (8 :> caps.base100_t_full)
    @@ (10 :> caps.pause) @@ (11 :> caps.asym_pause)

\* the 1000BASE-T control bits it composes
GigabitFlags(caps) == (8 :> caps.base1000_t_half) @@ (9 :> caps.base1000_t_full)

\* the value composed from v and the flags f differs from v
Differs(v, f) == \E b \in DOMAIN f : Bit(v, b) # f[b]

\* call c accesses register r at most by one read and, after it, one write
ReadOnceThenWrite(c, r) ==
    /\ Cardinality(ReadsOf(c, r)) = 1
    /\ Cardinality(WritesOf(c, r)) <= 1
    /\ \A k \in WritesOf(c, r) : \A j \in ReadsOf(c, r) : j < k

\* C26: config_advert() writes the advertisement register iff the value it
\* composes differs from the value read, writes the 1000BASE-T control register
\* iff the value composed for it differs from the value read, reads each of the
\* two registers once, and returns changed = true iff it issued one of the writes.
C26_WriteOnlyIfChanged ==
    \A i \in 1..Len(calls) :
        LET c == calls[i] IN
        c.op = "config_advert"
            => /\ ReadOnceThenWrite(c, Mii_Advertise)
               /\ WritesOf(c, Mii_Advertise) # {}
                      <=> Differs(FirstRead(c, Mii_Advertise), AdvertFlags(gp.supported))
               /\ c.ret.kind = "Ok"
                      => /\ ReadOnceThenWrite(c, Mii_Ctrl1000)
                         /\ WritesOf(c, Mii_Ctrl1000) # {}
                                <=> Differs(FirstRead(c, Mii_Ctrl1000), GigabitFlags(gp.supported))
                         /\ c.ret.changed <=> AdvertChanged(c)
               /\ c.ret.kind # "Ok"
                      => \A k \in c.first..c.last : trace[k].reg # Mii_Ctrl1000

\* only the advertisement register had to be written: changed = true
C26_Witness ==
    /\ Returned("config_advert")
    /\ LastCall.ret = [kind |-> "Ok", changed |-> TRUE]
    /\ WritesOf(LastCall, Mii_Advertise) # {}
    /\ WritesOf(LastCall, Mii_Ctrl1000) = {}
    /\ ~Differs(FirstRead(LastCall, Mii_Ctrl1000), GigabitFlags(gp.supported))

---------------------------------------------------------------------------
(* RGMII branch: the delay enables                                         *)

\* the reads / the writes of call c that reached extended register x
ExtReads(c, x) == {k \in ExtAccesses(c, x) : trace[k].op = "r"}

ExtWrites(c, x) == {k \in ExtAccesses(c, x) : trace[k].op = "w"}

\* C27: in the RGMII branch the RGMII-control register is read once and then
\* written once, with TX_CLK_DELAY (bit 1) set for RGMII-ID and RGMII-TXID only,
\* RX_CLK_DELAY (bit 0) set for RGMII-ID and RGMII-RXID only, and every other
\* bit as read.
C27_RgmiiDelayEnables ==
    \A i \in 1..Len(calls) :
        LET c == calls[i] IN
        (c.op = "config" /\ conf.interface \in {"Rgmii", "RgmiiId", "RgmiiRxid", "RgmiiTxid"})
            => /\ Cardinality(ExtReads(c, Dp83867Reg_RgmiiCtl)) = 1
               /\ Cardinality(ExtWrites(c, Dp83867Reg_RgmiiCtl)) = 1
               /\ \A r \in ExtReads(c, Dp83867Reg_RgmiiCtl), u \in ExtWrites(c, Dp83867Reg_RgmiiCtl) :
                      /\ r < u
                      /\ Bit(trace[u].val, 1) <=> conf.interface \in {"RgmiiId", "RgmiiTxid"}
                      /\ Bit(trace[u].val, 0) <=> conf.interface \in {"RgmiiId", "RgmiiRxid"}
                      /\ \A b \in 2..15 : Bit(trace[u].val, b) <=> Bit(trace[r].val, b)

\* RGMII-TXID over a register reading 0xFFFF: 0xFFFE written
C27_Witness ==
    /\ Returned("config")
    /\ conf.interface = "RgmiiTxid"
    /\ \E r \in ExtReads(LastCall, Dp83867Reg_RgmiiCtl) : trace[r].val = 65535
    /\ \E u \in ExtWrites(LastCall, Dp83867Reg_RgmiiCtl) : trace[u].val = 65534

---------------------------------------------------------------------------
(* RGMII branch: the strap correction                                      *)

\* the PHY-control value u follows from the value r read and the strap status
\* s: FORCE_LINK_GOOD (bit 10) clear, the TX FIFO depth (bits 15:14) from the
\* record, SGMII-enable (bit 11) cleared if strap bit 11 is set, the rest as read
StrapCorrected(u, r, s, depth) ==
    /\ ~Bit(u, 10)
    /\ u \div 16384 = depth % 4
    /\ Bit(u, 11) <=> (Bit(r, 11) /\ ~Bit(s, 11))
    /\ \A b \in (0..9) \cup {12, 13} : Bit(u, b) <=> Bit(r, b)

\* C28: in the RGMII branch configure() writes the PHY-control register (0x10)
\* once, after the one strap-status read, which follows the one read of
\* PHY-control; the value written is the value read with FORCE_LINK_GOOD
\* cleared, the FIFO depth of the record, and SGMII-enable cleared iff the
\* strap status has bit 11 set.
C28_StrapCorrection ==
    \A i \in 1..Len(calls) :
        LET c == calls[i] IN
        (c.op = "config" /\ conf.interface \in {"Rgmii", "RgmiiId", "RgmiiRxid", "RgmiiTxid"})
            => /\ Cardinality(ReadsOf(c, Dp83867Reg_PhyCtrl)) = 1
               /\ Cardinality(WritesOf(c, Dp83867Reg_PhyCtrl)) = 1
               /\ Cardinality(ExtReads(c, Dp83867Reg_StrapSts1)) = 1
               /\ \A r \in ReadsOf(c, Dp83867Reg_PhyCtrl), u \in WritesOf(c, Dp83867Reg_PhyCtrl),
                     s \in ExtReads(c, Dp83867Reg_StrapSts1) :
                      /\ r < s /\ s < u
                      /\ StrapCorrected(trace[u].val, trace[r].val, trace[s].val, conf.fifo_depth)

\* PHY-control reads 0xFFFF, the strap bit is set, depth Bpn4: 0x73FF written
C28_Witness ==
    /\ Returned("config")
    /\ conf.interface = "Rgmii"
    /\ conf.fifo_depth = 1
    /\ \E s \in ExtReads(LastCall, Dp83867Reg_StrapSts1) : Bit(trace[s].val, 11)
    /\ \E r \in ReadsOf(LastCall, Dp83867Reg_PhyCtrl) : trace[r].val = 65535
    /\ \E u \in WritesOf(LastCall, Dp83867Reg_PhyCtrl) : trace[u].val = 29695

---------------------------------------------------------------------------
(* SGMII branch                                                            *)

\* the first write of call c to direct register r
FirstWrite(c, r) == trace[CHOOSE k \in WritesOf(c, r) : \A j \in WritesOf(c, r) : k <= j].val

\* SGMII-enable (0x0800) + automatic MDI crossover (0x0040) + the depth in the
\* RX (bits 13:12) and TX (bits 15:14) FIFO fields
SgmiiPhyCtrl(depth) == 2048 + 64 + (depth % 4) * 4096 + (depth % 4) * 16384

\* C29: in the SGMII branch configure() writes 0x1140 (auto-negotiation enable,
\* full duplex, 1000 Mbps) to the standard control register, 0 to the
\* RGMII-control MMD register and to the BIST-control register, exactly
\* SGMII-enable + automatic MDI-crossover + the RX and TX FIFO depth of the
\* record to the PHY-control register, and writes the SGMII reference-clock
\* register iff the reference-clock-enable flag is set.
C29_SgmiiPostcondition ==
    \A i \in 1..Len(calls) :
        LET c == calls[i] IN
        (c.op = "config" /\ conf.interface = "Sgmii")
            => /\ WritesOf(c, Mii_Bmcr) # {} /\ FirstWrite(c, Mii_Bmcr) = 4416
               /\ Cardinality(ExtWrites(c, Dp83867Reg_RgmiiCtl)) = 1
               /\ \A k \in ExtWrites(c, Dp83867Reg_RgmiiCtl) : trace[k].val = 0
               /\ Cardinality(WritesOf(c, Dp83867Reg_Biscr)) = 1
               /\ \A k \in WritesOf(c, Dp83867Reg_Biscr) : trace[k].val = 0
               /\ Cardinality(WritesOf(c, Dp83867Reg_PhyCtrl)) = 1
               /\ \A k \in WritesOf(c, Dp83867Reg_PhyCtrl) :
                      trace[k].val = SgmiiPhyCtrl(conf.fifo_depth)
               /\ ExtWrites(c, Dp83867Reg_SgmiiCtl) # {} <=> conf.sgmii_ref_clk_en
               /\ RegOf(bus, PhyAddr, Dp83867Reg_PhyCtrl) = SgmiiPhyCtrl(conf.fifo_depth)
               /\ RegOf(bus, PhyAddr, Dp83867Reg_Biscr) = 0
               /\ ExtOf(bus, PhyAddr, DP83867_DEVADDR, Dp83867Reg_RgmiiCtl) = 0

\* no reference clock, depth 3, over registers that held 0xFFFF: 0xF840 in PHY-control
C29_Witness ==
    /\ Returned("config")
    /\ conf.interface = "Sgmii"
    /\ ~conf.sgmii_ref_clk_en
    /\ conf.fifo_depth = 3
    /\ \E k \in ReadsOf(LastCall, Dp83867Reg_Cfg2) : trace[k].val = 65535
    /\ ExtAccesses(LastCall, Dp83867Reg_SgmiiCtl) = {}
    /\ RegOf(bus, PhyAddr, Dp83867Reg_PhyCtrl) = 63552

---------------------------------------------------------------------------
(* I/O-mux register: impedance and clock output combined                   *)

\* the value call c read first from / wrote last to extended register x
FirstExtRead(c, x) == trace[CHOOSE k \in ExtReads(c, x) : \A j \in ExtReads(c, x) : k <= j].val

LastExtWrite(c, x) == trace[CHOOSE k \in ExtWrites(c, x) : \A j \in ExtWrites(c, x) : j <= k].val

\* the clock fields of I/O-mux values u and r agree: disable (bit 6), source (bits 12:8)
SameClockFields(u, r) == \A b \in {6} \cup (8..12) : Bit(u, b) <=> Bit(r, b)

\* value u holds the clock-output setting for selector sel over the value r
ClockSetting(u, r, sel) ==
    IF sel = None
    THEN Bit(u, 6) /\ \A b \in 8..12 : Bit(u, b) <=> Bit(r, b)
    ELSE ~Bit(u, 6) /\ (u \div 256) % 32 = sel % 32

\* C30: with an impedance and the clock-output configuration both supplied,
\* configure() leaves in the I/O-mux register the impedance in bits 4:0 and the
\* clock-output setting (disable set when no source is selected, else disable
\* clear and the source in bits 12:8), every other bit as first read; when the
\* clock output is not requested no write changes the clock fields, whatever
\* the source selector holds.
C30_IoMuxCombination ==
    \A i \in 1..Len(calls) :
        LET c == calls[i]
            x == Dp83867Reg_IoMuxCfg
        IN  c.op = "config"
            => /\ (conf.io_impedance # None /\ conf.set_clk_output)
                      => /\ Cardinality(ExtWrites(c, x)) = 2
                         /\ LastExtWrite(c, x) % 32 = conf.io_impedance % 32
                         /\ ClockSetting(LastExtWrite(c, x), FirstExtRead(c, x), conf.clk_output_sel)
                         /\ \A b \in {5, 7, 13, 14, 15} :
                                Bit(LastExtWrite(c, x), b) <=> Bit(FirstExtRead(c, x), b)
                         /\ i = Len(calls) => ExtOf(bus, PhyAddr, DP83867_DEVADDR, x) = LastExtWrite(c, x)
               /\ ~conf.set_clk_output
                      => /\ \A k \in ExtWrites(c, x) : SameClockFields(trace[k].val, FirstExtRead(c, x))
                         /\ conf.io_impedance = None => ExtAccesses(c, x) = {} /\ ExtSelects(c, x) = {}

\* impedance 21 and source 12 over a register reading 0xFFFF: 0xECB5
C30_Witness ==
    /\ Returned("config")
    /\ conf.io_impedance = 21 /\ conf.set_clk_output /\ conf.clk_output_sel = 12
    /\ FirstExtRead(LastCall, Dp83867Reg_IoMuxCfg) = 65535
    /\ LastExtWrite(LastCall, Dp83867Reg_IoMuxCfg) = 60597
    /\ ExtOf(bus, PhyAddr, DP83867_DEVADDR, Dp83867Reg_IoMuxCfg) = 60597

---------------------------------------------------------------------------
(* Shared-handle scenario: two execution contexts use one engine with no   *)
(* serialization.  Each issues the bus accesses of one MMD operation of    *)
(* configure(); the bus carries one access at a time, in any interleaving. *)
(* pc holds each context's position: the request, the accesses issued so   *)
(* far (their places in the trace) and the mirror of the value read.       *)

Contexts == {"A", "B"}

\* config_port_mirroring (ENABLE): read-modify-write of Cfg4
MirrorEnable ==
    [kind |-> "modify", reg |-> Dp83867Reg_Cfg4, fv |-> SET(Cfg4_PORT_MIRROR_EN), data |-> 0]

\* the other context: the erratum step's read-modify-write of Cfg4, the strap
\* status read of rgmii_config, or its write of the delay register
OtherRequests ==
    {[kind |-> "modify", reg |-> Dp83867Reg_Cfg4, fv |-> CLEAR(Cfg4_INT_TST_MODE_1), data |-> 0],
     [kind |-> "read", reg |-> Dp83867Reg_StrapSts1, fv |-> CLEAR(StrapSts1_RESERVED), data |-> 0],
     [kind |-> "write", reg |-> Dp83867Reg_RgmiiDCtl, fv |-> CLEAR(StrapSts1_RESERVED),
      data |-> rgmiid_ctl_val(Ns2_00, Ns2_00)]}

\* bus accesses of a request: from_read + phy_write are two MMD accesses of four
NumAccesses(q) == IF q.kind = "modify" THEN 8 ELSE 4

\* access a issued again on the world w
Replay(w, a) ==
    IF a.op = "w" THEN BusWrite(w, a.phy, a.reg, a.val) ELSE BusRead(w, a.phy, a.reg)

\* the p-th write (p in 1..3) of phy_mmd_start_indirect(addr, regnum), on w
SetupAccess(w, g, addr, regnum, p) ==
    Replay(w, phy_mmd_start_indirect([bus |-> w.bus, trace |-> <<>>], g, addr, regnum).trace[p])

\* the k-th bus access of request q; mirror is the value its read returned
SharedAccess(w, g, q, k, mirror) ==
    IF (k - 1) % 4 < 3
    THEN SetupAccess(w, g, DP83867_DEVADDR, q.reg, ((k - 1) % 4) + 1)
    ELSE IF q.kind = "read" \/ (q.kind = "modify" /\ k = 4)
    THEN read(w, g, Mii_MmdData)
    ELSE write(w, g, Mii_MmdData, IF q.kind = "modify" THEN RegModify(mirror, q.fv) ELSE q.data)

\* 0x0080 (INT_TST_MODE_1 set) and 0xFFFE (all but the mirror enable)
SharedCfg4Vals == {128, 65534}

InitShared ==
    /\ \E cfg4 \in SharedCfg4Vals :
           bus = VendorBus((Mii_Bmcr :> 4416) @@ (Mii_Bmsr :> 31085),
                           (Dp83867Reg_Cfg4 :> cfg4) @@ (Dp83867Reg_StrapSts1 :> 2048)
                           @@ (Dp83867Reg_RgmiiDCtl :> 0))
    /\ trace = <<>>
    /\ gp = [addr |-> PhyAddr, supported |-> AllCaps]
    /\ conf = DefaultConf
    /\ \E q \in OtherRequests :
           pc = [c \in Contexts |->
                    [req |-> IF c = "A" THEN MirrorEnable ELSE q, idx |-> <<>>, mirror |-> 0]]
    /\ calls = <<>>
    /\ polls = 0

\* context c issues its next bus access; with the last one its operation returns
SharedStep(c) ==
    /\ Len(pc[c].idx) < NumAccesses(pc[c].req)
    /\ \E w1 \in {SharedAccess(World, gp, pc[c].req, Len(pc[c].idx) + 1, pc[c].mirror)} :
           /\ Commit(w1)
           /\ pc' = [pc EXCEPT ![c].idx = Append(@, Len(w1.trace)),
                               ![c].mirror = IF trace'[Len(trace')].op = "r"
                                             THEN LastVal(w1) ELSE @]
           /\ calls' = IF Len(pc[c].idx) + 1 = NumAccesses(pc[c].req)
                       THEN Append(calls, [op |-> pc[c].req.kind, ctx |-> c, req |-> pc[c].req,
                                           idx |-> Append(pc[c].idx, Len(w1.trace)),
                                           ret |-> [kind |-> "Ok"]])
                       ELSE calls
    /\ UNCHANGED <<gp, conf, polls>>

NextShared == \E c \in Contexts : SharedStep(c)

SpecShared == InitShared /\ [][NextShared]_vars

\* no access of the other context fell between the accesses of call c
Serialized(c) == c.idx[Len(c.idx)] - c.idx[1] = Len(c.idx) - 1

\* the data accesses of call c: every fourth access
DataAccesses(c) == {c.idx[k] : k \in {k \in 1..Len(c.idx) : k % 4 = 0}}

\* every data access of call c reached the extended register it asked for
OnTarget(c) ==
    \A k \in DataAccesses(c) :
        trace[k].reg = Mii_MmdData /\ trace[k].xdev = DP83867_DEVADDR /\ trace[k].xreg = c.req.reg

\* value u is value r with the bits of the field value fv applied
Applied(u, r, fv) ==
    \A b \in 0..15 : Bit(u, b) <=> (IF Bit(fv.mask, b) THEN Bit(fv.value, b) ELSE Bit(r, b))

\* the extended register holds the update of the read-modify-write c
UpdateKept(c) ==
    LET v == ExtOf(bus, PhyAddr, DP83867_DEVADDR, c.req.reg)
    IN  \A b \in 0..15 : Bit(c.req.fv.mask, b) => (Bit(v, b) <=> Bit(c.req.fv.value, b))

\* a data access of a finished call proxied another extended register
MisdirectedAccess ==
    \E i \in 1..Len(calls) : \E k \in DataAccesses(calls[i]) :
        trace[k].xreg # NoExt /\ trace[k].xreg # calls[i].req.reg

\* both read-modify-writes reached their register and finished, and the
\* register lacks the update of one of them
LostUpdate ==
    /\ Len(calls) = 2
    /\ \A i \in 1..2 : calls[i].op = "modify" /\ OnTarget(calls[i])
    /\ \E i \in 1..2 : ~UpdateKept(calls[i])

\* C31: a data access reaches another extended register than the one asked
\* for, or an update is lost, only when accesses of the two contexts interleave:
\* an operation no foreign access fell into reaches its register and writes the
\* value read with its field applied, and when neither operation was
\* interleaved every update is in the register.
C31_UnsafeOnlyInterleaved ==
    /\ \A i \in 1..Len(calls) :
           LET c == calls[i] IN
           Serialized(c)
               => /\ OnTarget(c)
                  /\ c.op = "modify" => Applied(trace[c.idx[8]].val, trace[c.idx[4]].val, c.req.fv)
    /\ (Len(calls) = 2 /\ \A i \in 1..2 : Serialized(calls[i]))
           => \A i \in 1..2 : calls[i].op = "modify" => UpdateKept(calls[i])
    /\ (MisdirectedAccess \/ LostUpdate) => \E i \in 1..Len(calls) : ~Serialized(calls[i])

\* interleaved setups: context A's write of Cfg4 landed in the register the
\* other context had selected
C31_Witness ==
    \E i \in 1..Len(calls) :
        /\ calls[i].ctx = "A"
        /\ trace[calls[i].idx[8]].op = "w"
        /\ trace[calls[i].idx[8]].xreg \in {Dp83867Reg_StrapSts1, Dp83867Reg_RgmiiDCtl}

\* interleaved read-modify-writes of Cfg4: one context's update is lost
C31_LostUpdateReached == LostUpdate

---------------------------------------------------------------------------
(* Advertisement composition                                               *)

\* value u is value r with the bits in DOMAIN f set to the flags f
Composed(u, r, f) ==
    \A b \in 0..15 : Bit(u, b) <=> (IF b \in DOMAIN f THEN f[b] ELSE Bit(r, b))

\* C32: the advertisement value config_advert() composes (and writes, when it
\* differs) is the value read with HALF100 (bit 7), FULL100 (8), PAUSE_CAP (10)
\* and PAUSE_ASYM (11) set to their flags, HALF10 (5) to base10_t_half or
\* base1000_x_full, FULL10 (6) to base10_t_full or base1000_x_half, every other
\* bit as read; the 1000BASE-T control value is the value read with HALF (8) =
\* base1000_t_half and FULL (9) = base1000_t_full, every other bit as read.
C32_AdvertComposition ==
    \A i \in 1..Len(calls) :
        LET c == calls[i]
            s == gp.supported
        IN  c.op = "config_advert"
            => /\ \A k \in WritesOf(c, Mii_Advertise) :
                      /\ Composed(trace[k].val, FirstRead(c, Mii_Advertise), AdvertFlags(s))
                      /\ Bit(trace[k].val, 5) <=> (s.base10_t_half \/ s.base1000_x_full)
                      /\ Bit(trace[k].val, 6) <=> (s.base10_t_full \/ s.base1000_x_half)
                      /\ Bit(trace[k].val, 7) <=> s.base100_t_half
                      /\ Bit(trace[k].val, 8) <=> s.base100_t_full
                      /\ Bit(trace[k].val, 10) <=> s.pause
                      /\ Bit(trace[k].val, 11) <=> s.asym_pause
               /\ WritesOf(c, Mii_Advertise) = {}
                      => Composed(FirstRead(c, Mii_Advertise), FirstRead(c, Mii_Advertise), AdvertFlags(s))
               /\ \A k \in WritesOf(c, Mii_Ctrl1000) :
                      /\ Composed(trace[k].val, FirstRead(c, Mii_Ctrl1000), GigabitFlags(s))
                      /\ Bit(trace[k].val, 8) <=> s.base1000_t_half
                      /\ Bit(trace[k].val, 9) <=> s.base1000_t_full
               /\ (c.ret.kind = "Ok" /\ WritesOf(c, Mii_Ctrl1000) = {})
                      => Composed(FirstRead(c, Mii_Ctrl1000), FirstRead(c, Mii_Ctrl1000), GigabitFlags(s))

\* only base1000_x_half supported, the register reads 0x0001: 0x0041 written
C32_Witness ==
    /\ Returned("config_advert")
    /\ gp.supported.base1000_x_half /\ ~gp.supported.base10_t_full
    /\ FirstRead(LastCall, Mii_Advertise) = 1
    /\ \E k \in WritesOf(LastCall, Mii_Advertise) : trace[k].val = 65

---------------------------------------------------------------------------
(* startup() is read-only                                                  *)

\* this step is taken by startup(): it issues bus accesses and enters the
\* wait loop of a startup() call, iterates it, or returns from the call
StartupStep ==
    /\ trace' # trace
    /\ \/ pc' = "startup"
       \/ Len(calls') > Len(calls) /\ calls'[Len(calls')].op = "startup"

\* every access of a returned startup() is a read, and each call reads the
\* status register first and at least two more registers
StartupReads ==
    \A i \in 1..Len(calls) :
        LET c == calls[i] IN
        c.op = "startup"
            => /\ \A k \in c.first..c.last : trace[k].op = "r"
               /\ IsStatusRead(c.first)
               /\ c.last >= c.first + 2

\* C33: update_link() and parse_link() issue no bus write: a step of startup()
\* leaves every register of the bus as it was, and every startup() call, a
\* later one too, reads the status and link registers from the bus.
C33_StartupReadOnly == []StartupReads /\ [][StartupStep => bus' = bus]_vars

\* two startup() calls in a row, the second reading the registers again
C33_Witness ==
    /\ Len(calls) = 2
    /\ calls[1].op = "startup" /\ calls[2].op = "startup"
    /\ calls[2].ret.speed = "S1000"
    /\ calls[2].last - calls[2].first = calls[1].last - calls[1].first
    /\ \A k \in calls[2].first..calls[2].last : trace[k].op = "r"

---------------------------------------------------------------------------
(* Partial configuration on failure                                        *)

\* C34: a config_aneg() that fails with the capability error has accessed
\* neither the 1000BASE-T control register nor BMCR; its only write, if any, is
\* the one write of the advertisement register, issued before the status read
\* that fails it.
C34_PartialOnFailure ==
    \A i \in 1..Len(calls) :
        LET c == calls[i] IN
        (c.op = "config_aneg" /\ c.ret.kind = "Err")
            => /\ c.ret.msg = "Bad BMSR Setting"
               /\ \A k \in c.first..c.last : trace[k].reg \notin {Mii_Ctrl1000, Mii_Bmcr}
               /\ Writes(c) = WritesOf(c, Mii_Advertise)
               /\ Cardinality(Writes(c)) <= 1
               /\ \A k \in Writes(c) : \A j \in ReadsOf(c, Mii_Bmsr) : k < j
               /\ Writes(c) # {} <=> Differs(FirstRead(c, Mii_Advertise), AdvertFlags(gp.supported))

\* the call failed, and the advertisement register no longer holds what it held
C34_Witness ==
    /\ Len(calls) = 1
    /\ calls[1].op = "config_aneg"
    /\ calls[1].ret.kind = "Err"
    /\ Writes(calls[1]) # {}
    /\ RegOf(bus, PhyAddr, Mii_Advertise) # FirstRead(calls[1], Mii_Advertise)

---------------------------------------------------------------------------
(* config_aneg() idempotence                                               *)

\* C35: of two successful config_aneg() calls in a row on a bank that stores
\* what is written, the second issues no bus write at all, so the two calls
\* together write BMCR (restart the negotiation) at most once.
C35_AnegIdempotent ==
    \A i \in 1..(Len(calls) - 1) :
        (/\ calls[i].op = "config_aneg" /\ calls[i].ret.kind = "Ok"
         /\ calls[i + 1].op = "config_aneg" /\ calls[i + 1].ret.kind = "Ok")
            => /\ Writes(calls[i + 1]) = {}
               /\ Cardinality(WritesOf(calls[i], Mii_Bmcr) \cup WritesOf(calls[i + 1], Mii_Bmcr)) <= 1

\* the first call wrote the advertisement and restarted; the second read BMCR
\* with the restart bit (9) still stored and wrote nothing
C35_Witness ==
    /\ Len(calls) = 2
    /\ calls[1].op = "config_aneg" /\ calls[2].op = "config_aneg"
    /\ calls[1].ret.kind = "Ok" /\ calls[2].ret.kind = "Ok"
    /\ WritesOf(calls[1], Mii_Advertise) # {}
    /\ WritesOf(calls[1], Mii_Bmcr) # {}
    /\ \E k \in ReadsOf(calls[2], Mii_Bmcr) : Bit(trace[k].val, 9)
    /\ Writes(calls[2]) = {}

---------------------------------------------------------------------------
(* Mirror scenario: the caller holds one register mirror (Reg) and applies *)
(* MaxMirrorOps operations to it.  pc is the mirror: the register number   *)
(* and the local value.  A call's ret records the value before and after.  *)

MaxMirrorOps == 3

MirrorRegs == {Mii_Bmcr, Mii_Bmsr}

\* 0x0000; 0x1540 negotiation enabled, isolated, full duplex, 1000 Mbps
MirrorVals == {0, 5440}

MirrorFields == {SET(Bmcr_ANRESTART), CLEAR(Bmcr_ISOLATE)}

\* the operations that work on the local value alone
FieldOps ==
    {[name |-> "get"]}
    \cup {[name |-> "set", v |-> v] : v \in MirrorVals}
    \cup {[name |-> n, fv |-> fv] : n \in {"modify", "is_set", "matches_all"}, fv \in MirrorFields}
    \cup {[name |-> "matches_any", fvs |-> {SET(Bmcr_ISOLATE), CLEAR(Bmcr_ANENABLE)}]}
    \cup {[name |-> "and_assign", v |-> 4416]}

\* operation o on the mirror m in the world w: the world and the local value
\* it leaves, and what it returns
MirrorOp(w, g, m, o) ==
    CASE o.name = "new" -> [w |-> w, val |-> 0, out |-> 0]
      [] o.name = "from_read" ->
             [w |-> Reg_from_read(w, g, o.reg), val |-> LastVal(Reg_from_read(w, g, o.reg)),
              out |-> 0]
      [] o.name = "phy_read" ->
             [w |-> Reg_phy_read(w, g, m.reg), val |-> LastVal(Reg_phy_read(w, g, m.reg)),
              out |-> 0]
      [] o.name = "phy_write" -> [w |-> Reg_phy_write(w, g, m.reg, m.val), val |-> m.val, out |-> 0]
      [] o.name = "get" -> [w |-> w, val |-> m.val, out |-> m.val]
      [] o.name = "set" -> [w |-> w, val |-> o.v, out |-> 0]
      [] o.name = "modify" -> [w |-> w, val |-> RegModify(m.val, o.fv), out |-> 0]
      [] o.name = "is_set" -> [w |-> w, val |-> m.val, out |-> RegIsSet(m.val, o.fv)]
      [] o.name = "matches_all" -> [w |-> w, val |-> m.val, out |-> RegMatchesAll(m.val, o.fv)]
      [] o.name = "matches_any" -> [w |-> w, val |-> m.val, out |-> RegMatchesAny(m.val, o.fvs)]
      [] o.name = "and_assign" -> [w |-> w, val |-> BitAnd(m.val, o.v), out |-> 0]

InitMirror ==
    /\ \E bmcr \in MirrorVals, bmsr \in {31085, 31049} :
           bus = BankBus((Mii_Bmcr :> bmcr) @@ (Mii_Bmsr :> bmsr))
    /\ trace = <<>>
    /\ gp = [addr |-> PhyAddr, supported |-> AllCaps]
    /\ conf = DefaultConf
    /\ \E r \in MirrorRegs : pc = [reg |-> r, val |-> 0]
    /\ calls = <<>>
    /\ polls = 0

\* the caller applies o: the accesses reach the bus, the mirror takes the value
MirrorApply(o, reg) ==
    /\ Len(calls) < MaxMirrorOps
    /\ \E r \in {MirrorOp(World, gp, pc, o)} :
           /\ Commit(r.w)
           /\ pc' = [reg |-> reg, val |-> r.val]
           /\ calls' = Append(calls, Call(o.name, r.w,
                          [kind |-> "Ok", reg |-> reg, before |-> pc.val, after |-> r.val,
                           out |-> r.out]))
    /\ UNCHANGED <<gp, conf, polls>>

\* Reg::new(phy, reg_num) / Reg::from_read(phy, reg_num)
MirrorConstruct ==
    \E n \in {"new", "from_read"}, r \in MirrorRegs : MirrorApply([name |-> n, reg |-> r], r)

\* reg().get / set / modify / is_set / matches_all / matches_any, &=
MirrorFieldOp == \E o \in FieldOps : MirrorApply(o, pc.reg)

\* phy_read() / phy_write()
MirrorThrough == \E n \in {"phy_read", "phy_write"} : MirrorApply([name |-> n], pc.reg)

NextMirror == MirrorConstruct \/ MirrorFieldOp \/ MirrorThrough

SpecMirror == InitMirror /\ [][NextMirror]_vars

\* call c issued exactly one bus access: kind op, direct register reg
OneAccess(c, op, reg) ==
    /\ c.last = c.first
    /\ trace[c.first].op = op /\ trace[c.first].reg = reg /\ trace[c.first].phy = PhyAddr

\* C36: new() and the field operations (get, set, modify, is_set,
\* matches_all, matches_any, &=) issue no bus access; from_read() and
\* phy_read() issue exactly one bus read, whose value the mirror takes;
\* phy_write() issues exactly one bus write, of the mirror's current value,
\* and no read before it.
C36_MirrorDiscipline ==
    \A i \in 1..Len(calls) :
        LET c == calls[i] IN
        /\ c.op \in {"new", "get", "set", "modify", "is_set", "matches_all", "matches_any",
                     "and_assign"}
               => c.last = c.first - 1
        /\ c.op \in {"from_read", "phy_read"}
               => OneAccess(c, "r", c.ret.reg) /\ c.ret.after = trace[c.first].val
        /\ c.op = "phy_write"
               => /\ OneAccess(c, "w", c.ret.reg)
                  /\ trace[c.first].val = c.ret.before
                  /\ c.ret.after = c.ret.before
        /\ c.op = "new" => c.ret.after = 0

\* from_read, modify, phy_write: two accesses in all, the write carrying the
\* modified value
C36_Witness ==
    /\ Len(calls) = 3
    /\ calls[1].op = "from_read" /\ calls[2].op = "modify" /\ calls[3].op = "phy_write"
    /\ calls[1].ret.reg = Mii_Bmcr
    /\ Len(trace) = 2
    /\ trace[1].val = 5440
    /\ trace[2].op = "w" /\ trace[2].val = 4416

=============================================================================
